---- MODULE Spec2Model ----
(***************************************************************************)
(* Model of src/bff.js: the three fingerprint engines                      *)
(* (AdvancedBrowserFingerprint, CSSFingerprint, AdvancedCSSFingerprint),   *)
(* their probe executors (generate), their stable-feature hashes (getHash) *)
(* and the djb2 fold all of them share.                                    *)
(*                                                                         *)
(* Three specifications:                                                   *)
(*   SpecFold  the fold loop of getHash, one character per step            *)
(*   Spec      one generate() call on one engine, with host events/timers  *)
(*   SpecHash  getHash() on records an engine instance can hold            *)
(***************************************************************************)
EXTENDS Integers, Sequences, FiniteSets, TLC

VARIABLES
    \* ---- fold loop (bff.js 776-782) ----
    str,        \* the canonical string, a sequence of 16-bit character codes
    i,          \* loop index (0-based, as in the source)
    hash,       \* the accumulator `hash`, a JS number, as <<high, low>> 16-bit limbs
    foldPc,     \* "idle" | "loop" | "done"
    shiftNeg,   \* history: some `hash << 5` of this run was a negative int32
    wrapped,    \* history: some 33*hash + c of this run exceeded 2^32 - 1
    \* ---- one generate() call ----
    engine,     \* which class the instance is
    host,       \* the host runtime the probes measure
    gen,        \* the promise generate() returned: "idle" (not called yet) |
                \* "running" | "fulfilled" | "rejected"
    launched,   \* how many probes generate() has called
    outcome,    \* outcome[k]: the promise the call of probe k returned
    fingerprint, \* this.fingerprint (this.results of AdvancedCSSFingerprint)
    returned,   \* the value generate() resolved with
    webrtc,     \* detectWebRTCFingerprint: the peer connection, ips, the timer
    speech,     \* detectSpeechSynthesis: the handler and the timer
    inversion,  \* history: a probe settled before a probe called earlier
    \* ---- getHash() calls ----
    other,      \* a second instance of the same class: its host, record, hashes
    hashes,     \* the strings the getHash() calls on this instance returned
    \* ---- one call of a function ----
    args,       \* the arguments of the call
    ret,        \* what the call returned
    \* ---- objects outside the instance ----
    dom,        \* the temporary nodes of probes that are children of document.body
    held,       \* the record objects earlier generate() calls returned to the caller
    calls       \* the generate() invocations of one instance that overlap

foldVars == <<str, i, hash, foldPc, shiftNeg, wrapped>>

genVars == <<engine, host, gen, launched, outcome, fingerprint, returned, webrtc, speech,
             inversion>>

hashVars == <<other, hashes>>

callVars == <<args, ret>>

heapVars == <<dom, held, calls>>

\* no temporary node in the document, no record held, no invocation in flight
HeapIdle ==
    /\ dom = {}
    /\ held = <<>>
    /\ calls = <<>>

vars == <<str, i, hash, foldPc, shiftNeg, wrapped, engine, host, gen, launched, outcome,
          fingerprint, returned, webrtc, speech, inversion, other, hashes, args, ret,
          dom, held, calls>>

----------------------------------------------------------------------------
(* JavaScript numbers.  Every number the fold handles is an integer below   *)
(* 2^53, so a double holds it exactly.  It is written v = H * 2^16 + L with *)
(* 0 <= L < 2^16 and H any (possibly negative) integer.                     *)

\* 2^16, the limb base
W16 == 2^16

\* 2^15, the sign bit of a limb
Half == 2^15

\* the limbs of the integer hi * 2^16 + lo, for any lo >= 0
Norm(hi, lo) == <<hi + (lo \div W16), lo % W16>>

\* ToUint32: x >>> 0
ToUint32(x) == <<x[1] % W16, x[2]>>

\* ToInt32: the operand conversion of <<, and x | 0
ToInt32(x) ==
    LET h == x[1] % W16
    IN  <<IF h >= Half THEN h - W16 ELSE h, x[2]>>

\* x << 5 : ToInt32 of the operand, shift inside 32 bits, signed int32 result
Shl5(x) ==
    LET a == ToInt32(x)
    IN  ToInt32(Norm(a[1] * 32, a[2] * 32))

\* x + y on numbers (exact)
Plus(x, y) == Norm(x[1] + y[1], x[2] + y[2])

\* a character code as a number
CharNum(c) == <<0, c>>

\* the loop body, bff.js 779-780:
\*   hash = ((hash << 5) + hash) + str.charCodeAt(i);  hash = hash >>> 0;
FoldSigned(h, c) == ToInt32(Plus(Plus(Shl5(h), h), CharNum(c)))

FoldStep(h, c) == ToUint32(Plus(Plus(Shl5(h), h), CharNum(c)))

\* a fold that starts from 0
HashSeedZero == <<0, 0>>

\* let hash = 5381
HashSeed == <<0, 5381>>

RECURSIVE FoldFrom(_, _, _, _)
\* the iterations lo..hi of the loop (1-based), in order, from accumulator h;
\* the range is halved, and the accumulator read on entry (its low limb is
\* never negative), only to keep the evaluation shallow on long strings
FoldFrom(h, s, lo, hi) ==
    IF lo > hi \/ h[2] < 0 THEN h
    ELSE IF lo = hi THEN FoldStep(h, s[lo])
    ELSE LET mid == (lo + hi) \div 2
         IN  FoldFrom(FoldFrom(h, s, lo, mid), s, mid + 1, hi)

\* the whole loop on string s from accumulator h
Fold(h, s) == FoldFrom(h, s, 1, Len(s))

\* the fold of a canonical string
Djb2(s) == Fold(HashSeed, s)

\* one hexadecimal digit, lowercase
HexDigit(d) == IF d < 10 THEN 48 + d ELSE 87 + d

RECURSIVE HexNat(_)
HexNat(n) == IF n < 16 THEN <<HexDigit(n)>> ELSE Append(HexNat(n \div 16), HexDigit(n % 16))

RECURSIVE PadHex4(_)
PadHex4(s) == IF Len(s) >= 4 THEN s ELSE PadHex4(<<48>> \o s)

\* the number in eight hexadecimal digits, zero-padded
ToString16Padded(h) == PadHex4(HexNat(h[1])) \o PadHex4(HexNat(h[2]))

\* hash.toString(16) of an unsigned 32-bit number
ToString16(h) == IF h[1] = 0 THEN HexNat(h[2]) ELSE HexNat(h[1]) \o PadHex4(HexNat(h[2]))

----------------------------------------------------------------------------
(* Reference: h := (33 * h + c) mod 2^32 on unsigned limbs.                 *)

RefStep(h, c) ==
    LET lo == 33 * h[2] + c
        hi == 33 * h[1] + (lo \div W16)
    IN  <<hi % W16, lo % W16>>

RECURSIVE RefFold(_, _)
RefFold(h, s) == IF s = <<>> THEN h ELSE RefFold(RefStep(h, Head(s)), Tail(s))

\* 33 * h + c needs more than 32 bits
Overflows(h, c) == 33 * h[1] + ((33 * h[2] + c) \div W16) >= W16

----------------------------------------------------------------------------
(* Inputs of the fold.                                                      *)

MaxLen == 4

\* character codes: NUL, '1', ':', 'a', 'b', '|', and the largest code unit
Chars == {0, 49, 58, 97, 98, 124, 65535}

RECURSIVE SeqsUpTo(_, _)
SeqsUpTo(S, n) ==
    IF n = 0 THEN {<<>>}
    ELSE LET shorter == SeqsUpTo(S, n - 1)
         IN  shorter \cup {Append(s, c) : s \in {t \in shorter : Len(t) = n - 1}, c \in S}

\* "a:1|b:2"
GoldenString == <<97, 58, 49, 124, 98, 58, 50>>

FoldInputs == SeqsUpTo(Chars, MaxLen) \cup {GoldenString}

----------------------------------------------------------------------------
(* The fold loop as a state machine.                                        *)

FoldInit ==
    /\ str \in FoldInputs
    /\ i = 0
    /\ hash = HashSeed
    /\ foldPc = "loop"
    /\ shiftNeg = FALSE
    /\ wrapped = FALSE
    /\ engine = "none"
    /\ host = <<>>
    /\ gen = "idle"
    /\ launched = 0
    /\ outcome = <<>>
    /\ fingerprint = <<>>
    /\ returned = <<>>
    /\ webrtc = <<>>
    /\ speech = <<>>
    /\ inversion = FALSE
    /\ other = <<>>
    /\ hashes = <<>>
    /\ args = <<>>
    /\ ret = <<>>
    /\ HeapIdle

\* one iteration of `for (let i = 0; i < str.length; i++)`
FoldIter ==
    /\ foldPc = "loop"
    /\ i < Len(str)
    /\ hash' = FoldStep(hash, str[i + 1])
    /\ i' = i + 1
    /\ shiftNeg' = (shiftNeg \/ Shl5(hash)[1] < 0)
    /\ wrapped' = (wrapped \/ Overflows(hash, str[i + 1]))
    /\ UNCHANGED <<heapVars, str, foldPc, genVars, hashVars, callVars>>

\* loop exit and `return hash.toString(16)`
FoldExit ==
    /\ foldPc = "loop"
    /\ i >= Len(str)
    /\ foldPc' = "done"
    /\ ret' = ToString16(hash)
    /\ UNCHANGED <<heapVars, str, i, hash, shiftNeg, wrapped, genVars, hashVars, args>>

FoldNext == FoldIter \/ FoldExit

SpecFold == FoldInit /\ [][FoldNext]_vars

----------------------------------------------------------------------------
(* JavaScript values.  Strings are sequences of UTF-16 code units.  Numbers *)
(* in records are integers (the host values the model draws are integral).  *)
(* An object with a fixed schema is a function from property names; an      *)
(* object filled key by key ("map") is the sequence of its <<key, value>>   *)
(* pairs in insertion order, which is the order Object.keys and            *)
(* JSON.stringify enumerate.                                                *)

Null == [t |-> "null"]

Undef == [t |-> "undefined"]

Num(n) == [t |-> "num", n |-> n]

Str(s) == [t |-> "str", s |-> s]

Bool(b) == [t |-> "bool", b |-> b]

Arr(a) == [t |-> "arr", a |-> a]

Obj(o) == [t |-> "obj", o |-> o]

Map(m) == [t |-> "map", m |-> m]

\* the empty object {}
EmptyObj == Obj(<<>>)

\* v?.k and v.k on an object: a missing property, and ?. on null/undefined,
\* evaluate to undefined
Prop(v, k) == IF v.t = "obj" /\ k \in DOMAIN v.o THEN v.o[k] ELSE Undef

\* ToBoolean
Truthy(v) ==
    CASE v.t = "null" -> FALSE
      [] v.t = "undefined" -> FALSE
      [] v.t = "num" -> v.n # 0
      [] v.t = "str" -> v.s # <<>>
      [] v.t = "bool" -> v.b
      [] OTHER -> TRUE

\* a || b
OrElse(a, b) == IF Truthy(a) THEN a ELSE b

RECURSIVE NatStr(_)
\* decimal digits of a natural number
NatStr(n) == IF n < 10 THEN <<48 + n>> ELSE Append(NatStr(n \div 10), 48 + (n % 10))

\* Number.prototype.toString of an integer
IntStr(n) == IF n < 0 THEN <<45>> \o NatStr(0 - n) ELSE NatStr(n)

RECURSIVE Zeros(_)
Zeros(k) == IF k = 0 THEN <<>> ELSE <<48>> \o Zeros(k - 1)

\* n.toFixed(k) of an integer n, k >= 1
ToFixed(n, k) == IntStr(n) \o <<46>> \o Zeros(k)

RECURSIVE JoinFrom(_, _, _, _)
\* the strings ss[lo..hi] joined by the string sep
JoinFrom(ss, sep, lo, hi) ==
    IF lo > hi THEN <<>>
    ELSE IF lo = hi THEN ss[lo]
    ELSE LET mid == (lo + hi) \div 2
         IN  JoinFrom(ss, sep, lo, mid) \o sep \o JoinFrom(ss, sep, mid + 1, hi)

\* the strings of ss joined by the string sep
JoinStrs(ss, sep) == JoinFrom(ss, sep, 1, Len(ss))

\* "null", "undefined", "true", "false", "[object Object]"
NullStr == <<110, 117, 108, 108>>

UndefStr == <<117, 110, 100, 101, 102, 105, 110, 101, 100>>

TrueStr == <<116, 114, 117, 101>>

FalseStr == <<102, 97, 108, 115, 101>>

ObjectStr == <<91, 111, 98, 106, 101, 99, 116, 32, 79, 98, 106, 101, 99, 116, 93>>

RECURSIVE ToStr(_)
\* ToString, as a template literal `${v}` and Array.prototype.join apply it
ToStr(v) ==
    CASE v.t = "null" -> NullStr
      [] v.t = "undefined" -> UndefStr
      [] v.t = "num" -> IntStr(v.n)
      [] v.t = "str" -> v.s
      [] v.t = "bool" -> IF v.b THEN TrueStr ELSE FalseStr
      [] v.t = "arr" ->
            JoinStrs([j \in 1..Len(v.a) |->
                        IF v.a[j].t \in {"null", "undefined"} THEN <<>> ELSE ToStr(v.a[j])],
                     <<44>>)
      [] OTHER -> ObjectStr

\* a.join(sep) of an array value
Join(v, sep) ==
    JoinStrs([j \in 1..Len(v.a) |->
                IF v.a[j].t \in {"null", "undefined"} THEN <<>> ELSE ToStr(v.a[j])], sep)

\* a.length
Length(v) == IF v.t = "arr" THEN Num(Len(v.a)) ELSE IF v.t = "str" THEN Num(Len(v.s)) ELSE Undef

RECURSIVE StrLess(_, _)
\* a < b on strings: by UTF-16 code units, a proper prefix first
StrLess(a, b) ==
    IF b = <<>> THEN FALSE
    ELSE IF a = <<>> THEN TRUE
    ELSE IF Head(a) # Head(b) THEN Head(a) < Head(b)
    ELSE StrLess(Tail(a), Tail(b))

RECURSIVE InsertSorted(_, _)
InsertSorted(sorted, x) ==
    IF sorted = <<>> THEN <<x>>
    ELSE IF StrLess(ToStr(x), ToStr(Head(sorted))) THEN <<x>> \o sorted
    ELSE <<Head(sorted)>> \o InsertSorted(Tail(sorted), x)

RECURSIVE SortArr(_)
\* Array.prototype.sort() without comparator: ascending by ToString; stable
SortArr(a) == IF a = <<>> THEN <<>> ELSE InsertSorted(SortArr(SubSeq(a, 1, Len(a) - 1)), a[Len(a)])

\* the array value a after a.sort()
Sort(v) == Arr(SortArr(v.a))

RECURSIVE JsonStringify(_)
\* JSON.stringify of the values a record holds (strings here need no escape)
JsonStringify(v) ==
    CASE v.t = "null" -> NullStr
      [] v.t = "undefined" -> NullStr
      [] v.t = "num" -> IntStr(v.n)
      [] v.t = "str" -> <<34>> \o v.s \o <<34>>
      [] v.t = "bool" -> IF v.b THEN TrueStr ELSE FalseStr
      [] v.t = "arr" ->
            <<91>> \o JoinStrs([j \in 1..Len(v.a) |-> JsonStringify(v.a[j])], <<44>>) \o <<93>>
      [] v.t = "map" ->
            <<123>> \o JoinStrs([j \in 1..Len(v.m) |->
                                   <<34>> \o v.m[j][1] \o <<34, 58>> \o JsonStringify(v.m[j][2])],
                                <<44>>) \o <<125>>
      [] OTHER -> <<123, 125>>

\* the loop started from 0 instead of 5381
CombinedFoldLoopFromZero(s) == ToString16(Fold(<<0, 0>>, s))

\* the four copies of the loop with its `return hash.toString(16)`:
\* AdvancedBrowserFingerprint.getHash (bff.js 776-782)
AbfFoldLoop(s) == ToString16(Fold(HashSeed, s))

\* CSSFingerprint.getHash (bff.js 1347-1353)
CssFoldLoop(s) == ToString16(Fold(HashSeed, s))

\* AdvancedCSSFingerprint.getHash (bff.js 1809-1816)
AdvFoldLoop(s) == ToString16(Fold(HashSeed, s))

\* CombinedCSSFingerprint.getCombinedHash (bff.js 1868-1875)
CombinedFoldLoop(s) == ToString16(Fold(HashSeed, s))

\* the tail of every getHash: join('|'), fold, toString(16)
HashOfFeatures(features) == ToString16(Djb2(JoinStrs(features, <<124>>)))

----------------------------------------------------------------------------
(* AdvancedBrowserFingerprint.getHash (bff.js 708-783).                      *)

\* the literal prefixes of the template strings of bff.js 712-767
AbfLabel ==
    [ webgl |-> <<119, 101, 98, 103, 108, 58>>,
      webgl_vendor |-> <<119, 101, 98, 103, 108, 95, 118, 101, 110, 100, 111, 114, 58>>,
      audio |-> <<97, 117, 100, 105, 111, 58>>,
      audio_sr |-> <<97, 117, 100, 105, 111, 95, 115, 114, 58>>,
      audio_ch |-> <<97, 117, 100, 105, 111, 95, 99, 104, 58>>,
      canvas |-> <<99, 97, 110, 118, 97, 115, 58>>,
      hw_cores |-> <<104, 119, 95, 99, 111, 114, 101, 115, 58>>,
      hw_mem |-> <<104, 119, 95, 109, 101, 109, 58>>,
      screen |-> <<115, 99, 114, 101, 101, 110, 58>>,
      screen_depth |-> <<115, 99, 114, 101, 101, 110, 95, 100, 101, 112, 116, 104, 58>>,
      screen_dpr |-> <<115, 99, 114, 101, 101, 110, 95, 100, 112, 114, 58>>,
      tz |-> <<116, 122, 58>>,
      tz_offset |-> <<116, 122, 95, 111, 102, 102, 115, 101, 116, 58>>,
      lang |-> <<108, 97, 110, 103, 58>>,
      math_tan |-> <<109, 97, 116, 104, 95, 116, 97, 110, 58>>,
      math_sin |-> <<109, 97, 116, 104, 95, 115, 105, 110, 58>>,
      math_acos |-> <<109, 97, 116, 104, 95, 97, 99, 111, 115, 58>>,
      platform |-> <<112, 108, 97, 116, 102, 111, 114, 109, 58>>,
      vendor |-> <<118, 101, 110, 100, 111, 114, 58>>,
      touch |-> <<116, 111, 117, 99, 104, 58>>,
      speech |-> <<115, 112, 101, 101, 99, 104, 58>>,
      plugins |-> <<112, 108, 117, 103, 105, 110, 115, 58>>,
      error |-> <<101, 114, 114, 111, 114, 58>>,
      rect |-> <<114, 101, 99, 116, 58>> ]

\* ''
EmptyStr == Str(<<>>)

\* "x"
LetterX == <<120>>

\* an element of stableFeatures as join('|') renders it
Elem(v) == IF v.t \in {"null", "undefined"} THEN <<>> ELSE ToStr(v)

\* x?.toFixed(k)
OptToFixed(v, k) == IF v.t \in {"null", "undefined"} THEN Undef ELSE Str(ToFixed(v.n, k))

\* (this.fingerprint.webgl?.extensions || []).sort(): the array the call sorts
\* and returns; it is the record's own array whenever the record has one
SortedExtensions(fp) == Sort(OrElse(Prop(Prop(fp, "webgl"), "extensions"), Arr(<<>>)))

\* the extensions joined in the order the record holds them
ExtensionsJoinedUnsorted(fp) ==
    Join(OrElse(Prop(Prop(fp, "webgl"), "extensions"), Arr(<<>>)), <<44>>)

\* bff.js 716: the joined extensions
ExtensionsFeature(fp) == Join(SortedExtensions(fp), <<44>>)

\* bff.js 740: the joined languages
LanguagesFeature(fp) ==
    Join(OrElse(Prop(Prop(fp, "languages"), "languages"), Arr(<<>>)), <<44>>)

\* bff.js 748
TextMetricsFeature(fp) == JsonStringify(OrElse(Prop(fp, "canvasTextMetrics"), Map(<<>>)))

\* "battery:" followed by the battery level
AbfBatteryFeature(fp) ==
    << <<98, 97, 116, 116, 101, 114, 121, 58>>
       \o ToStr(OrElse(Prop(Prop(fp, "battery"), "level"), EmptyStr)) >>

\* the features the comment of bff.js 769-773 lists as excluded: battery,
\* network, performance.memory, storageQuota contribute no element
AbfExcludedFeatures(fp) == <<>>

\* const stableFeatures = [...], bff.js 710-774
AbfStableFeatures(fp) ==
    LET webgl == Prop(fp, "webgl")
        audio == Prop(fp, "audio")
        scr == Prop(fp, "screen")
        tz == Prop(fp, "timezone")
        math == Prop(fp, "mathConstants")
        nav == Prop(fp, "navigator")
        rect == Prop(fp, "domRect")
        L == AbfLabel
    IN  << L.webgl \o ToStr(Prop(fp, "webglRenderer")),
           L.webgl_vendor \o ToStr(Prop(fp, "webglVendor")),
           Elem(OrElse(Prop(webgl, "version"), EmptyStr)),
           Elem(OrElse(Prop(webgl, "shadingLanguageVersion"), EmptyStr)),
           ExtensionsFeature(fp),
           L.audio \o ToStr(OrElse(OptToFixed(Prop(audio, "audioSum"), 2), EmptyStr)),
           L.audio_sr \o ToStr(OrElse(Prop(audio, "sampleRate"), EmptyStr)),
           L.audio_ch \o ToStr(OrElse(Prop(audio, "maxChannelCount"), EmptyStr)),
           L.canvas \o ToStr(OrElse(Prop(Prop(fp, "canvas"), "hash"), EmptyStr)),
           L.hw_cores \o ToStr(OrElse(Prop(fp, "hardwareConcurrency"), EmptyStr)),
           L.hw_mem \o ToStr(OrElse(Prop(fp, "deviceMemory"), EmptyStr)),
           L.screen \o ToStr(Prop(scr, "width")) \o LetterX \o ToStr(Prop(scr, "height")),
           L.screen_depth \o ToStr(Prop(scr, "colorDepth")),
           L.screen_dpr \o ToStr(Prop(scr, "devicePixelRatio")),
           L.tz \o ToStr(OrElse(Prop(tz, "timezone"), EmptyStr)),
           L.tz_offset \o ToStr(OrElse(Prop(tz, "offset"), EmptyStr)),
           L.lang \o LanguagesFeature(fp),
           L.math_tan \o ToStr(OrElse(Prop(math, "tan"), EmptyStr)),
           L.math_sin \o ToStr(OrElse(Prop(math, "sin"), EmptyStr)),
           L.math_acos \o ToStr(OrElse(Prop(math, "acos"), EmptyStr)),
           TextMetricsFeature(fp),
           L.platform \o ToStr(OrElse(Prop(nav, "platform"), EmptyStr)),
           L.vendor \o ToStr(OrElse(Prop(nav, "vendor"), EmptyStr)),
           L.touch \o ToStr(OrElse(Prop(fp, "maxTouchPoints"), Num(0))),
           L.speech \o ToStr(Length(OrElse(Prop(fp, "speechSynthesis"), Arr(<<>>)))),
           L.plugins \o ToStr(Length(OrElse(Prop(fp, "plugins"), Arr(<<>>)))),
           L.error \o ToStr(OrElse(Prop(Prop(fp, "errorStack"), "format"), EmptyStr)),
           L.rect \o ToStr(OrElse(Prop(rect, "width"), EmptyStr)) \o LetterX
                  \o ToStr(OrElse(Prop(rect, "height"), EmptyStr)) >>
        \o AbfExcludedFeatures(fp)

\* the string getHash returns
AbfGetHash(fp) == AbfFoldLoop(JoinStrs(AbfStableFeatures(fp), <<124>>))

\* this.fingerprint after getHash: sort() has reordered webgl.extensions in place
AbfAfterGetHash(fp) ==
    IF Truthy(Prop(Prop(fp, "webgl"), "extensions"))
    THEN Obj([fp.o EXCEPT !["webgl"] =
                 Obj([fp.o["webgl"].o EXCEPT !["extensions"] = SortedExtensions(fp)])])
    ELSE fp

----------------------------------------------------------------------------
(* The probes of AdvancedBrowserFingerprint, in the order generate() lists  *)
(* them (bff.js 16-47), with the record field each result is stored in      *)
(* (bff.js 49-80).                                                          *)
(*   catch    the body is wrapped in try { } catch (e) { return null; }     *)
(*   kind     "sync"  the body runs to its return inside the call           *)
(*            "await" the body awaits a host promise                        *)
(*            "timed" the body returns new Promise(...) settled by a host   *)
(*                    event or a setTimeout                                 *)
(*   missing  what the body does when the host lacks the capability:        *)
(*            "null" returns null, "throw" raises a TypeError or            *)
(*            ReferenceError, "none" no capability is needed                *)

AbfProbes ==
    << [name |-> "detectWebGLFingerprint",    field |-> "webgl",               catch |-> TRUE,  kind |-> "sync",  missing |-> "null"],
       [name |-> "detectAudioContext",        field |-> "audio",               catch |-> TRUE,  kind |-> "await", missing |-> "null"],
       [name |-> "detectCanvasFingerprint",   field |-> "canvas",              catch |-> TRUE,  kind |-> "sync",  missing |-> "null"],
       [name |-> "detectWebRTCFingerprint",   field |-> "webrtc",              catch |-> TRUE,  kind |-> "timed", missing |-> "null"],
       [name |-> "detectHardwareConcurrency", field |-> "hardwareConcurrency", catch |-> FALSE, kind |-> "sync",  missing |-> "null"],
       [name |-> "detectDeviceMemory",        field |-> "deviceMemory",        catch |-> FALSE, kind |-> "sync",  missing |-> "null"],
       [name |-> "detectBatteryAPI",          field |-> "battery",             catch |-> TRUE,  kind |-> "await", missing |-> "null"],
       [name |-> "detectTimezoneOffset",      field |-> "timezone",            catch |-> FALSE, kind |-> "sync",  missing |-> "throw"],
       [name |-> "detectLanguages",           field |-> "languages",           catch |-> FALSE, kind |-> "sync",  missing |-> "none"],
       [name |-> "detectPlugins",             field |-> "plugins",             catch |-> FALSE, kind |-> "sync",  missing |-> "throw"],
       [name |-> "detectMimeTypes",           field |-> "mimeTypes",           catch |-> FALSE, kind |-> "sync",  missing |-> "throw"],
       [name |-> "detectTouchSupport",        field |-> "touchSupport",        catch |-> FALSE, kind |-> "sync",  missing |-> "none"],
       [name |-> "detectMaxTouchPoints",      field |-> "maxTouchPoints",      catch |-> FALSE, kind |-> "sync",  missing |-> "none"],
       [name |-> "detectScreenDetails",       field |-> "screen",              catch |-> FALSE, kind |-> "sync",  missing |-> "throw"],
       [name |-> "detectNavigatorProperties", field |-> "navigator",           catch |-> FALSE, kind |-> "sync",  missing |-> "none"],
       [name |-> "detectPerformanceMetrics",  field |-> "performance",         catch |-> FALSE, kind |-> "sync",  missing |-> "null"],
       [name |-> "detectWebGLRenderer",       field |-> "webglRenderer",       catch |-> TRUE,  kind |-> "sync",  missing |-> "null"],
       [name |-> "detectWebGLVendor",         field |-> "webglVendor",         catch |-> TRUE,  kind |-> "sync",  missing |-> "null"],
       [name |-> "detectCanvasTextMetrics",   field |-> "canvasTextMetrics",   catch |-> TRUE,  kind |-> "sync",  missing |-> "null"],
       [name |-> "detectMathConstants",       field |-> "mathConstants",       catch |-> FALSE, kind |-> "sync",  missing |-> "none"],
       [name |-> "detectErrorStackTrace",     field |-> "errorStack",          catch |-> FALSE, kind |-> "sync",  missing |-> "none"],
       [name |-> "detectDOMRectPrecision",    field |-> "domRect",             catch |-> TRUE,  kind |-> "sync",  missing |-> "null"],
       [name |-> "detectSpeechSynthesis",     field |-> "speechSynthesis",     catch |-> TRUE,  kind |-> "timed", missing |-> "null"],
       [name |-> "detectMediaDevices",        field |-> "mediaDevices",        catch |-> TRUE,  kind |-> "await", missing |-> "null"],
       [name |-> "detectGamepadAPI",          field |-> "gamepad",             catch |-> TRUE,  kind |-> "sync",  missing |-> "none"],
       [name |-> "detectVibrationAPI",        field |-> "vibration",           catch |-> FALSE, kind |-> "sync",  missing |-> "none"],
       [name |-> "detectNetworkInformation",  field |-> "network",             catch |-> TRUE,  kind |-> "sync",  missing |-> "null"],
       [name |-> "detectStorageQuota",        field |-> "storageQuota",        catch |-> TRUE,  kind |-> "await", missing |-> "null"],
       [name |-> "detectIndexedDBQuirks",     field |-> "indexedDB",           catch |-> TRUE,  kind |-> "sync",  missing |-> "null"],
       [name |-> "detectWebAssemblySupport",  field |-> "webAssembly",         catch |-> TRUE,  kind |-> "sync",  missing |-> "null"] >>

\* the fields whose probes read values that change from run to run on one
\* device (bff.js 769-773)
VolatileFields == {"battery", "network", "performance", "storageQuota"}

\* detectCanvasTextMetrics: const fonts, const testStrings (bff.js 489-490)
TextMetricFonts == << <<65, 114, 105, 97, 108>>, <<84, 105, 109, 101, 115, 32, 78, 101, 119, 32, 82, 111, 109, 97, 110>>, <<67, 111, 117, 114, 105, 101, 114, 32, 78, 101, 119>> >>

TextMetricStrings == << <<109, 109, 109, 109, 109, 109, 109, 109, 109, 109, 108, 108, 105>>, <<65, 66, 67, 68, 69, 70, 71, 72, 73, 74, 75, 76, 77>>, <<55356, 57256, 55357, 56613, 55357, 56507>> >>

\* the object stored per `${font}:${text}` key (bff.js 497-501); the host
\* measures width w, and reports no bounding box
TextMetric(w) ==
    Map(<< <<<<119, 105, 100, 116, 104>>, Str(ToFixed(w, 3))>>,
           <<<<97, 99, 116, 117, 97, 108, 66, 111, 117, 110, 100, 105, 110, 103, 66, 111, 120, 65, 115, 99, 101, 110, 116>>, Str(ToFixed(0, 3))>>,
           <<<<97, 99, 116, 117, 97, 108, 66, 111, 117, 110, 100, 105, 110, 103, 66, 111, 120, 68, 101, 115, 99, 101, 110, 116>>, Str(ToFixed(0, 3))>> >>)

\* detectCanvasTextMetrics (bff.js 485-509): one key per font and test
\* string, inserted font by font; the host measures text j in font f as
\* base + 10 * f + j
DetectCanvasTextMetrics(base) ==
    Map([k \in 1..(Len(TextMetricFonts) * Len(TextMetricStrings)) |->
           LET f == ((k - 1) \div Len(TextMetricStrings)) + 1
               j == ((k - 1) % Len(TextMetricStrings)) + 1
           IN  <<TextMetricFonts[f] \o <<58>> \o TextMetricStrings[j],
                 TextMetric(base + 10 * f + j)>>])

\* navigator.language of the host: "en"
PrimaryLanguage == <<101, 110>>

\* the value probe `field` returns on a host h that supports it and answers;
\* h.exts, h.langs, h.voices are the host's lists in the host's order,
\* h.vol the volatile fields whose reading differs from the last run
AbfOkValue(field, h) ==
    LET v(f) == IF f \in h.vol THEN 1 ELSE 0
    IN
    CASE field = "webgl" ->
            Obj([vendor |-> Str(<<87, 101, 98, 75, 105, 116>>), renderer |-> Str(<<87, 101, 98, 75, 105, 116, 32, 87, 101, 98, 71, 76>>),
                 version |-> Str(<<87, 101, 98, 71, 76, 32, 49, 46, 48>>),
                 shadingLanguageVersion |-> Str(<<71, 76, 83, 76, 32, 69, 83, 32, 49, 46, 48>>),
                 maxTextureSize |-> Num(16384),
                 extensions |-> IF h.exts = <<>> THEN Null
                                ELSE Arr([j \in 1..Len(h.exts) |-> Str(h.exts[j])])])
      [] field = "audio" ->
            Obj([audioSum |-> Num(124), sampleRate |-> Num(44100), maxChannelCount |-> Num(2),
                 numberOfInputs |-> Num(1), numberOfOutputs |-> Num(0), channelCount |-> Num(2),
                 state |-> Str(<<115, 117, 115, 112, 101, 110, 100, 101, 100>>)])
      [] field = "canvas" -> Obj([dataURL |-> Str(<<100, 97, 116, 97, 58, 105, 109, 97, 103, 101, 47, 112, 110, 103>>), hash |-> Str(<<45, 51, 102, 50, 97>>)])
      [] field = "hardwareConcurrency" -> Num(8)
      [] field = "deviceMemory" -> Num(4)
      [] field = "battery" ->
            Obj([charging |-> Bool(TRUE), level |-> Num(50 + v("battery")),
                 chargingTime |-> Num(0), dischargingTime |-> Num(3600)])
      [] field = "timezone" ->
            Obj([offset |-> Num(-60), timezone |-> Str(<<69, 117, 114, 111, 112, 101, 47, 80, 97, 114, 105, 115>>), locale |-> Str(<<102, 114, 45, 70, 82>>)])
      [] field = "languages" ->
            Obj([languages |-> Arr([j \in 1..Len(h.langs) |-> Str(h.langs[j])]),
                 language |-> Str(PrimaryLanguage)])
      [] field = "plugins" ->
            Arr(<<Obj([name |-> Str(<<80, 68, 70, 32, 86, 105, 101, 119, 101, 114>>), description |-> Str(<<112, 100, 102>>),
                       filename |-> Str(<<105, 110, 116, 101, 114, 110, 97, 108, 45, 112, 100, 102, 45, 118, 105, 101, 119, 101, 114>>)])>>)
      [] field = "mimeTypes" ->
            Arr(<<Obj([type |-> Str(<<97, 112, 112, 108, 105, 99, 97, 116, 105, 111, 110, 47, 112, 100, 102>>), description |-> Str(<<112, 100, 102>>),
                       suffixes |-> Str(<<112, 100, 102>>)])>>)
      [] field = "touchSupport" ->
            Obj([maxTouchPoints |-> Num(0), touchEvent |-> Bool(FALSE), touchPoints |-> Bool(TRUE)])
      [] field = "maxTouchPoints" -> Num(0)
      [] field = "screen" ->
            Obj([width |-> Num(1920), height |-> Num(1080), availWidth |-> Num(1920),
                 availHeight |-> Num(1040), colorDepth |-> Num(24), pixelDepth |-> Num(24),
                 devicePixelRatio |-> Num(2), orientation |-> Str(<<108, 97, 110, 100, 115, 99, 97, 112, 101, 45, 112, 114, 105, 109, 97, 114, 121>>),
                 angle |-> Num(0)])
      [] field = "navigator" ->
            Obj([userAgent |-> Str(<<77, 111, 122, 105, 108, 108, 97, 47, 53, 46, 48>>), platform |-> Str(<<76, 105, 110, 117, 120, 32, 120, 56, 54, 95, 54, 52>>),
                 vendor |-> Str(<<71, 111, 111, 103, 108, 101, 32, 73, 110, 99, 46>>), cookieEnabled |-> Bool(TRUE), onLine |-> Bool(TRUE)])
      [] field = "performance" ->
            Obj([memory |-> Obj([jsHeapSizeLimit |-> Num(4096), totalJSHeapSize |-> Num(2048),
                                 usedJSHeapSize |-> Num(1000 + v("performance"))]),
                 timing |-> Obj([navigationStart |-> Num(1700 + v("performance")),
                                 domContentLoadedEventEnd |-> Num(1800 + v("performance"))])])
      [] field = "webglRenderer" -> Str(<<65, 78, 71, 76, 69, 32, 40, 73, 110, 116, 101, 108, 41>>)
      [] field = "webglVendor" -> Str(<<71, 111, 111, 103, 108, 101, 32, 73, 110, 99, 46, 32, 40, 73, 110, 116, 101, 108, 41>>)
      [] field = "canvasTextMetrics" -> DetectCanvasTextMetrics(100)
      [] field = "mathConstants" ->
            Obj([e |-> Str(<<50, 46, 55, 49, 56, 50, 56, 49, 56, 50, 56, 52, 53, 57, 48, 52, 53>>), pi |-> Str(<<51, 46, 49, 52, 49, 53, 57, 50, 54, 53, 51, 53, 56, 57, 55, 57, 51>>),
                 tan |-> Str(<<45, 49, 46, 52, 50, 49, 52, 52, 56, 56, 50, 51, 56, 55, 52, 55, 50, 52, 53>>), sin |-> Str(<<45, 48, 46, 56, 49, 55, 56, 56, 49, 57, 49, 50, 49, 49, 53, 57, 48, 56, 53>>),
                 acos |-> Str(<<49, 46, 52, 52, 55, 52, 56, 52, 48, 53, 49, 54, 48, 51, 48, 50, 52, 55>>)])
      [] field = "errorStack" ->
            Obj([format |-> Str(<<69, 114, 114, 111, 114, 58, 32, 116, 101, 115, 116>>), length |-> Num(120), hasColumn |-> Bool(TRUE)])
      [] field = "domRect" ->
            Obj([width |-> Str(<<49, 48, 48, 46, 53>>), height |-> Str(<<53, 48, 46, 55>>), x |-> Str(<<56>>), y |-> Str(<<56>>)])
      [] field = "speechSynthesis" ->
            Arr([j \in 1..Len(h.voices) |-> Obj([name |-> Str(h.voices[j]), lang |-> Str(<<101, 110, 45, 85, 83>>)])])
      [] field = "mediaDevices" ->
            Obj([audioInput |-> Num(1), audioOutput |-> Num(1), videoInput |-> Num(1)])
      [] field = "gamepad" -> Obj([supported |-> Bool(TRUE), count |-> Num(0)])
      [] field = "vibration" -> Bool(FALSE)
      [] field = "network" ->
            Obj([effectiveType |-> Str(<<52, 103>>), downlink |-> Num(10),
                 rtt |-> Num(50 + 50 * v("network")), saveData |-> Bool(FALSE)])
      [] field = "storageQuota" ->
            Obj([quota |-> Num(1000000), usage |-> Num(10 + v("storageQuota")),
                 ratio |-> Str(<<48, 46, 48, 48, 48, 48>> \o NatStr(10 + v("storageQuota")))])
      [] field = "indexedDB" -> Obj([supported |-> Bool(TRUE), databases |-> Str(<<115, 117, 112, 112, 111, 114, 116, 101, 100>>)])
      [] field = "webAssembly" ->
            Obj([supported |-> Bool(TRUE), instantiate |-> Bool(TRUE), compile |-> Bool(TRUE)])
      [] field = "webrtc" -> Obj([localIPs |-> Arr(<<>>)])

----------------------------------------------------------------------------
(* CSSFingerprint (bff.js 821-1372).                                         *)

\* the probes in the order the object literal of generate() evaluates them
\* (bff.js 830-847); none has a try/catch; only detectAvailableFonts is async
CssProbes ==
    << [name |-> "detectCSSProperties",       field |-> "cssProperties",  catch |-> FALSE, kind |-> "sync", missing |-> "none"],
       [name |-> "detectFontMetrics",         field |-> "fontMetrics",    catch |-> FALSE, kind |-> "sync", missing |-> "throw"],
       [name |-> "detectMediaQueries",        field |-> "mediaQueries",   catch |-> FALSE, kind |-> "sync", missing |-> "throw"],
       [name |-> "detectScrollbarDimensions", field |-> "scrollbar",      catch |-> FALSE, kind |-> "sync", missing |-> "throw"],
       [name |-> "detectColorPrecision",      field |-> "colorPrecision", catch |-> FALSE, kind |-> "sync", missing |-> "throw"],
       [name |-> "detectCSSFilters",          field |-> "cssFilters",     catch |-> FALSE, kind |-> "sync", missing |-> "throw"],
       [name |-> "detectCSSTransforms",       field |-> "cssTransforms",  catch |-> FALSE, kind |-> "sync", missing |-> "throw"],
       [name |-> "detectCSSBlending",         field |-> "cssBlending",    catch |-> FALSE, kind |-> "sync", missing |-> "none"],
       [name |-> "detectCSSGrid",             field |-> "cssGrid",        catch |-> FALSE, kind |-> "sync", missing |-> "throw"],
       [name |-> "detectCSSVariables",        field |-> "cssVariables",   catch |-> FALSE, kind |-> "sync", missing |-> "throw"],
       [name |-> "detectAvailableFonts",      field |-> "fontList",       catch |-> FALSE, kind |-> "sync", missing |-> "throw"],
       [name |-> "detectEmojiRendering",      field |-> "emojiRendering", catch |-> FALSE, kind |-> "sync", missing |-> "throw"],
       [name |-> "detectTextRendering",       field |-> "textRendering",  catch |-> FALSE, kind |-> "sync", missing |-> "throw"],
       [name |-> "detectBorderRadiusQuirks",  field |-> "borderRadius",   catch |-> FALSE, kind |-> "sync", missing |-> "throw"],
       [name |-> "detectBoxShadowQuirks",     field |-> "boxShadow",      catch |-> FALSE, kind |-> "sync", missing |-> "throw"] >>

\* detectCSSProperties: const properties (bff.js 857-899)
CssPropertyNames ==
    << <<98, 97, 99, 107, 100, 114, 111, 112, 70, 105, 108, 116, 101, 114>>,    \* backdropFilter
       <<119, 101, 98, 107, 105, 116, 66, 97, 99, 107, 100, 114, 111, 112, 70, 105, 108, 116, 101, 114>>,    \* webkitBackdropFilter
       <<109, 97, 115, 107, 73, 109, 97, 103, 101>>,    \* maskImage
       <<119, 101, 98, 107, 105, 116, 77, 97, 115, 107, 73, 109, 97, 103, 101>>,    \* webkitMaskImage
       <<99, 108, 105, 112, 80, 97, 116, 104>>,    \* clipPath
       <<119, 101, 98, 107, 105, 116, 67, 108, 105, 112, 80, 97, 116, 104>>,    \* webkitClipPath
       <<102, 105, 108, 116, 101, 114>>,    \* filter
       <<119, 101, 98, 107, 105, 116, 70, 105, 108, 116, 101, 114>>,    \* webkitFilter
       <<109, 105, 120, 66, 108, 101, 110, 100, 77, 111, 100, 101>>,    \* mixBlendMode
       <<105, 115, 111, 108, 97, 116, 105, 111, 110>>,    \* isolation
       <<119, 105, 108, 108, 67, 104, 97, 110, 103, 101>>,    \* willChange
       <<99, 111, 110, 116, 97, 105, 110>>,    \* contain
       <<116, 111, 117, 99, 104, 65, 99, 116, 105, 111, 110>>,    \* touchAction
       <<111, 118, 101, 114, 115, 99, 114, 111, 108, 108, 66, 101, 104, 97, 118, 105, 111, 114>>,    \* overscrollBehavior
       <<115, 99, 114, 111, 108, 108, 83, 110, 97, 112, 84, 121, 112, 101>>,    \* scrollSnapType
       <<115, 99, 114, 111, 108, 108, 66, 101, 104, 97, 118, 105, 111, 114>>,    \* scrollBehavior
       <<116, 101, 120, 116, 68, 101, 99, 111, 114, 97, 116, 105, 111, 110, 83, 116, 121, 108, 101>>,    \* textDecorationStyle
       <<116, 101, 120, 116, 68, 101, 99, 111, 114, 97, 116, 105, 111, 110, 67, 111, 108, 111, 114>>,    \* textDecorationColor
       <<116, 101, 120, 116, 68, 101, 99, 111, 114, 97, 116, 105, 111, 110, 76, 105, 110, 101>>,    \* textDecorationLine
       <<102, 111, 110, 116, 86, 97, 114, 105, 97, 110, 116, 76, 105, 103, 97, 116, 117, 114, 101, 115>>,    \* fontVariantLigatures
       <<102, 111, 110, 116, 86, 97, 114, 105, 97, 110, 116, 67, 97, 112, 115>>,    \* fontVariantCaps
       <<102, 111, 110, 116, 70, 101, 97, 116, 117, 114, 101, 83, 101, 116, 116, 105, 110, 103, 115>>,    \* fontFeatureSettings
       <<104, 121, 112, 104, 101, 110, 115>>,    \* hyphens
       <<116, 101, 120, 116, 79, 114, 105, 101, 110, 116, 97, 116, 105, 111, 110>>,    \* textOrientation
       <<119, 114, 105, 116, 105, 110, 103, 77, 111, 100, 101>>,    \* writingMode
       <<105, 109, 97, 103, 101, 82, 101, 110, 100, 101, 114, 105, 110, 103>>,    \* imageRendering
       <<111, 98, 106, 101, 99, 116, 70, 105, 116>>,    \* objectFit
       <<111, 98, 106, 101, 99, 116, 80, 111, 115, 105, 116, 105, 111, 110>>,    \* objectPosition
       <<115, 104, 97, 112, 101, 79, 117, 116, 115, 105, 100, 101>>,    \* shapeOutside
       <<115, 104, 97, 112, 101, 77, 97, 114, 103, 105, 110>>,    \* shapeMargin
       <<99, 111, 108, 117, 109, 110, 67, 111, 117, 110, 116>>,    \* columnCount
       <<99, 111, 108, 117, 109, 110, 71, 97, 112>>,    \* columnGap
       <<103, 114, 105, 100, 84, 101, 109, 112, 108, 97, 116, 101, 67, 111, 108, 117, 109, 110, 115>>,    \* gridTemplateColumns
       <<103, 114, 105, 100, 84, 101, 109, 112, 108, 97, 116, 101, 82, 111, 119, 115>>,    \* gridTemplateRows
       <<103, 97, 112>>,    \* gap
       <<112, 108, 97, 99, 101, 73, 116, 101, 109, 115>>,    \* placeItems
       <<97, 115, 112, 101, 99, 116, 82, 97, 116, 105, 111>>,    \* aspectRatio
       <<97, 99, 99, 101, 110, 116, 67, 111, 108, 111, 114>>,    \* accentColor
       <<99, 111, 108, 111, 114, 83, 99, 104, 101, 109, 101>>,    \* colorScheme
       <<99, 111, 110, 116, 101, 110, 116, 86, 105, 115, 105, 98, 105, 108, 105, 116, 121>>,    \* contentVisibility
       <<111, 118, 101, 114, 102, 108, 111, 119, 65, 110, 99, 104, 111, 114>> >>    \* overflowAnchor

\* detectFontMetrics: const testFonts (bff.js 913-917)
CssMetricFonts ==
    << <<65, 114, 105, 97, 108>>,    \* Arial
       <<72, 101, 108, 118, 101, 116, 105, 99, 97>>,    \* Helvetica
       <<84, 105, 109, 101, 115, 32, 78, 101, 119, 32, 82, 111, 109, 97, 110>>,    \* Times New Roman
       <<67, 111, 117, 114, 105, 101, 114, 32, 78, 101, 119>>,    \* Courier New
       <<86, 101, 114, 100, 97, 110, 97>>,    \* Verdana
       <<71, 101, 111, 114, 103, 105, 97>>,    \* Georgia
       <<67, 111, 109, 105, 99, 32, 83, 97, 110, 115, 32, 77, 83>>,    \* Comic Sans MS
       <<84, 114, 101, 98, 117, 99, 104, 101, 116, 32, 77, 83>>,    \* Trebuchet MS
       <<65, 114, 105, 97, 108, 32, 66, 108, 97, 99, 107>>,    \* Arial Black
       <<73, 109, 112, 97, 99, 116>>,    \* Impact
       <<84, 97, 104, 111, 109, 97>>,    \* Tahoma
       <<67, 97, 108, 105, 98, 114, 105>> >>    \* Calibri

\* detectMediaQueries: const queries (bff.js 947-968)
CssMediaQueries ==
    << <<40, 112, 114, 101, 102, 101, 114, 115, 45, 99, 111, 108, 111, 114, 45, 115, 99, 104, 101, 109, 101, 58, 32, 100, 97, 114, 107, 41>>,    \* (prefers-color-scheme: dark)
       <<40, 112, 114, 101, 102, 101, 114, 115, 45, 114, 101, 100, 117, 99, 101, 100, 45, 109, 111, 116, 105, 111, 110, 58, 32, 114, 101, 100, 117, 99, 101, 41>>,    \* (prefers-reduced-motion: reduce)
       <<40, 112, 114, 101, 102, 101, 114, 115, 45, 99, 111, 110, 116, 114, 97, 115, 116, 58, 32, 104, 105, 103, 104, 41>>,    \* (prefers-contrast: high)
       <<40, 112, 114, 101, 102, 101, 114, 115, 45, 114, 101, 100, 117, 99, 101, 100, 45, 116, 114, 97, 110, 115, 112, 97, 114, 101, 110, 99, 121, 58, 32, 114, 101, 100, 117, 99, 101, 41>>,    \* (prefers-reduced-transparency: reduce)
       <<40, 105, 110, 118, 101, 114, 116, 101, 100, 45, 99, 111, 108, 111, 114, 115, 58, 32, 105, 110, 118, 101, 114, 116, 101, 100, 41>>,    \* (inverted-colors: inverted)
       <<40, 102, 111, 114, 99, 101, 100, 45, 99, 111, 108, 111, 114, 115, 58, 32, 97, 99, 116, 105, 118, 101, 41>>,    \* (forced-colors: active)
       <<40, 104, 111, 118, 101, 114, 58, 32, 104, 111, 118, 101, 114, 41>>,    \* (hover: hover)
       <<40, 112, 111, 105, 110, 116, 101, 114, 58, 32, 102, 105, 110, 101, 41>>,    \* (pointer: fine)
       <<40, 97, 110, 121, 45, 104, 111, 118, 101, 114, 58, 32, 104, 111, 118, 101, 114, 41>>,    \* (any-hover: hover)
       <<40, 97, 110, 121, 45, 112, 111, 105, 110, 116, 101, 114, 58, 32, 102, 105, 110, 101, 41>>,    \* (any-pointer: fine)
       <<40, 100, 105, 115, 112, 108, 97, 121, 45, 109, 111, 100, 101, 58, 32, 115, 116, 97, 110, 100, 97, 108, 111, 110, 101, 41>>,    \* (display-mode: standalone)
       <<40, 100, 105, 115, 112, 108, 97, 121, 45, 109, 111, 100, 101, 58, 32, 102, 117, 108, 108, 115, 99, 114, 101, 101, 110, 41>>,    \* (display-mode: fullscreen)
       <<40, 45, 119, 101, 98, 107, 105, 116, 45, 100, 101, 118, 105, 99, 101, 45, 112, 105, 120, 101, 108, 45, 114, 97, 116, 105, 111, 58, 32, 49, 41>>,    \* (-webkit-device-pixel-ratio: 1)
       <<40, 114, 101, 115, 111, 108, 117, 116, 105, 111, 110, 58, 32, 49, 100, 112, 112, 120, 41>>,    \* (resolution: 1dppx)
       <<40, 111, 114, 105, 101, 110, 116, 97, 116, 105, 111, 110, 58, 32, 112, 111, 114, 116, 114, 97, 105, 116, 41>>,    \* (orientation: portrait)
       <<40, 117, 112, 100, 97, 116, 101, 58, 32, 102, 97, 115, 116, 41>>,    \* (update: fast)
       <<40, 111, 118, 101, 114, 102, 108, 111, 119, 45, 98, 108, 111, 99, 107, 58, 32, 115, 99, 114, 111, 108, 108, 41>>,    \* (overflow-block: scroll)
       <<40, 111, 118, 101, 114, 102, 108, 111, 119, 45, 105, 110, 108, 105, 110, 101, 58, 32, 115, 99, 114, 111, 108, 108, 41>>,    \* (overflow-inline: scroll)
       <<40, 99, 111, 108, 111, 114, 45, 103, 97, 109, 117, 116, 58, 32, 115, 114, 103, 98, 41>>,    \* (color-gamut: srgb)
       <<40, 100, 121, 110, 97, 109, 105, 99, 45, 114, 97, 110, 103, 101, 58, 32, 115, 116, 97, 110, 100, 97, 114, 100, 41>> >>    \* (dynamic-range: standard)

\* detectColorPrecision: const testColors (bff.js 1012-1017)
CssTestColors ==
    << <<114, 103, 98, 40, 49, 44, 32, 50, 44, 32, 51, 41>>,    \* rgb(1, 2, 3)
       <<114, 103, 98, 40, 50, 53, 52, 44, 32, 50, 53, 51, 44, 32, 50, 53, 50, 41>>,    \* rgb(254, 253, 252)
       <<114, 103, 98, 97, 40, 49, 50, 56, 44, 32, 49, 50, 56, 44, 32, 49, 50, 56, 44, 32, 48, 46, 53, 41>>,    \* rgba(128, 128, 128, 0.5)
       <<114, 103, 98, 97, 40, 50, 53, 53, 44, 32, 50, 53, 53, 44, 32, 50, 53, 53, 44, 32, 48, 46, 48, 49, 41>> >>    \* rgba(255, 255, 255, 0.01)

\* detectCSSFilters: const filters (bff.js 1038-1049)
CssFilterNames ==
    << <<98, 108, 117, 114, 40, 53, 112, 120, 41>>,    \* blur(5px)
       <<98, 114, 105, 103, 104, 116, 110, 101, 115, 115, 40, 48, 46, 53, 41>>,    \* brightness(0.5)
       <<99, 111, 110, 116, 114, 97, 115, 116, 40, 50, 48, 48, 37, 41>>,    \* contrast(200%)
       <<103, 114, 97, 121, 115, 99, 97, 108, 101, 40, 49, 48, 48, 37, 41>>,    \* grayscale(100%)
       <<104, 117, 101, 45, 114, 111, 116, 97, 116, 101, 40, 57, 48, 100, 101, 103, 41>>,    \* hue-rotate(90deg)
       <<105, 110, 118, 101, 114, 116, 40, 49, 48, 48, 37, 41>>,    \* invert(100%)
       <<111, 112, 97, 99, 105, 116, 121, 40, 53, 48, 37, 41>>,    \* opacity(50%)
       <<115, 97, 116, 117, 114, 97, 116, 101, 40, 50, 48, 48, 37, 41>>,    \* saturate(200%)
       <<115, 101, 112, 105, 97, 40, 49, 48, 48, 37, 41>>,    \* sepia(100%)
       <<100, 114, 111, 112, 45, 115, 104, 97, 100, 111, 119, 40, 53, 112, 120, 32, 53, 112, 120, 32, 53, 112, 120, 32, 98, 108, 97, 99, 107, 41>> >>    \* drop-shadow(5px 5px 5px black)

\* detectCSSTransforms: const transforms (bff.js 1069-1091)
CssTransformNames ==
    << <<109, 97, 116, 114, 105, 120, 40, 49, 44, 32, 48, 44, 32, 48, 44, 32, 49, 44, 32, 48, 44, 32, 48, 41>>,    \* matrix(1, 0, 0, 1, 0, 0)
       <<109, 97, 116, 114, 105, 120, 51, 100, 40, 49, 44, 48, 44, 48, 44, 48, 44, 48, 44, 49, 44, 48, 44, 48, 44, 48, 44, 48, 44, 49, 44, 48, 44, 48, 44, 48, 44, 48, 44, 49, 41>>,    \* matrix3d(1,0,0,0,0,1,0,0,0,0,1,0,0,0,0,1)
       <<112, 101, 114, 115, 112, 101, 99, 116, 105, 118, 101, 40, 53, 48, 48, 112, 120, 41>>,    \* perspective(500px)
       <<114, 111, 116, 97, 116, 101, 40, 52, 53, 100, 101, 103, 41>>,    \* rotate(45deg)
       <<114, 111, 116, 97, 116, 101, 51, 100, 40, 49, 44, 32, 49, 44, 32, 49, 44, 32, 52, 53, 100, 101, 103, 41>>,    \* rotate3d(1, 1, 1, 45deg)
       <<114, 111, 116, 97, 116, 101, 88, 40, 52, 53, 100, 101, 103, 41>>,    \* rotateX(45deg)
       <<114, 111, 116, 97, 116, 101, 89, 40, 52, 53, 100, 101, 103, 41>>,    \* rotateY(45deg)
       <<114, 111, 116, 97, 116, 101, 90, 40, 52, 53, 100, 101, 103, 41>>,    \* rotateZ(45deg)
       <<115, 99, 97, 108, 101, 40, 50, 41>>,    \* scale(2)
       <<115, 99, 97, 108, 101, 51, 100, 40, 50, 44, 32, 50, 44, 32, 50, 41>>,    \* scale3d(2, 2, 2)
       <<115, 99, 97, 108, 101, 88, 40, 50, 41>>,    \* scaleX(2)
       <<115, 99, 97, 108, 101, 89, 40, 50, 41>>,    \* scaleY(2)
       <<115, 99, 97, 108, 101, 90, 40, 50, 41>>,    \* scaleZ(2)
       <<115, 107, 101, 119, 40, 49, 48, 100, 101, 103, 44, 32, 49, 48, 100, 101, 103, 41>>,    \* skew(10deg, 10deg)
       <<115, 107, 101, 119, 88, 40, 49, 48, 100, 101, 103, 41>>,    \* skewX(10deg)
       <<115, 107, 101, 119, 89, 40, 49, 48, 100, 101, 103, 41>>,    \* skewY(10deg)
       <<116, 114, 97, 110, 115, 108, 97, 116, 101, 40, 49, 48, 112, 120, 44, 32, 49, 48, 112, 120, 41>>,    \* translate(10px, 10px)
       <<116, 114, 97, 110, 115, 108, 97, 116, 101, 51, 100, 40, 49, 48, 112, 120, 44, 32, 49, 48, 112, 120, 44, 32, 49, 48, 112, 120, 41>>,    \* translate3d(10px, 10px, 10px)
       <<116, 114, 97, 110, 115, 108, 97, 116, 101, 88, 40, 49, 48, 112, 120, 41>>,    \* translateX(10px)
       <<116, 114, 97, 110, 115, 108, 97, 116, 101, 89, 40, 49, 48, 112, 120, 41>>,    \* translateY(10px)
       <<116, 114, 97, 110, 115, 108, 97, 116, 101, 90, 40, 49, 48, 112, 120, 41>> >>    \* translateZ(10px)

\* detectCSSBlending: const modes (bff.js 1108-1112)
CssBlendModes ==
    << <<110, 111, 114, 109, 97, 108>>,    \* normal
       <<109, 117, 108, 116, 105, 112, 108, 121>>,    \* multiply
       <<115, 99, 114, 101, 101, 110>>,    \* screen
       <<111, 118, 101, 114, 108, 97, 121>>,    \* overlay
       <<100, 97, 114, 107, 101, 110>>,    \* darken
       <<108, 105, 103, 104, 116, 101, 110>>,    \* lighten
       <<99, 111, 108, 111, 114, 45, 100, 111, 100, 103, 101>>,    \* color-dodge
       <<99, 111, 108, 111, 114, 45, 98, 117, 114, 110>>,    \* color-burn
       <<104, 97, 114, 100, 45, 108, 105, 103, 104, 116>>,    \* hard-light
       <<115, 111, 102, 116, 45, 108, 105, 103, 104, 116>>,    \* soft-light
       <<100, 105, 102, 102, 101, 114, 101, 110, 99, 101>>,    \* difference
       <<101, 120, 99, 108, 117, 115, 105, 111, 110>>,    \* exclusion
       <<104, 117, 101>>,    \* hue
       <<115, 97, 116, 117, 114, 97, 116, 105, 111, 110>>,    \* saturation
       <<99, 111, 108, 111, 114>>,    \* color
       <<108, 117, 109, 105, 110, 111, 115, 105, 116, 121>> >>    \* luminosity

\* detectAvailableFonts: const testFonts (bff.js 1152-1162)
CssTestFonts ==
    << <<65, 114, 105, 97, 108>>,    \* Arial
       <<86, 101, 114, 100, 97, 110, 97>>,    \* Verdana
       <<72, 101, 108, 118, 101, 116, 105, 99, 97>>,    \* Helvetica
       <<84, 97, 104, 111, 109, 97>>,    \* Tahoma
       <<84, 114, 101, 98, 117, 99, 104, 101, 116, 32, 77, 83>>,    \* Trebuchet MS
       <<84, 105, 109, 101, 115, 32, 78, 101, 119, 32, 82, 111, 109, 97, 110>>,    \* Times New Roman
       <<71, 101, 111, 114, 103, 105, 97>>,    \* Georgia
       <<71, 97, 114, 97, 109, 111, 110, 100>>,    \* Garamond
       <<67, 111, 117, 114, 105, 101, 114, 32, 78, 101, 119>>,    \* Courier New
       <<66, 114, 117, 115, 104, 32, 83, 99, 114, 105, 112, 116, 32, 77, 84>>,    \* Brush Script MT
       <<67, 111, 109, 105, 99, 32, 83, 97, 110, 115, 32, 77, 83>>,    \* Comic Sans MS
       <<73, 109, 112, 97, 99, 116>>,    \* Impact
       <<76, 117, 99, 105, 100, 97, 32, 83, 97, 110, 115, 32, 85, 110, 105, 99, 111, 100, 101>>,    \* Lucida Sans Unicode
       <<67, 97, 108, 105, 98, 114, 105>>,    \* Calibri
       <<67, 97, 109, 98, 114, 105, 97>>,    \* Cambria
       <<67, 111, 110, 115, 111, 108, 97, 115>>,    \* Consolas
       <<83, 101, 103, 111, 101, 32, 85, 73>>,    \* Segoe UI
       <<67, 97, 110, 100, 97, 114, 97>>,    \* Candara
       <<70, 114, 97, 110, 107, 108, 105, 110, 32, 71, 111, 116, 104, 105, 99, 32, 77, 101, 100, 105, 117, 109>>,    \* Franklin Gothic Medium
       <<65, 114, 105, 97, 108, 32, 66, 108, 97, 99, 107>>,    \* Arial Black
       <<80, 97, 108, 97, 116, 105, 110, 111, 32, 76, 105, 110, 111, 116, 121, 112, 101>>,    \* Palatino Linotype
       <<66, 111, 111, 107, 32, 65, 110, 116, 105, 113, 117, 97>>,    \* Book Antiqua
       <<76, 117, 99, 105, 100, 97, 32, 67, 111, 110, 115, 111, 108, 101>>,    \* Lucida Console
       <<77, 83, 32, 83, 97, 110, 115, 32, 83, 101, 114, 105, 102>>,    \* MS Sans Serif
       <<77, 83, 32, 83, 101, 114, 105, 102>>,    \* MS Serif
       <<82, 111, 98, 111, 116, 111>>,    \* Roboto
       <<79, 112, 101, 110, 32, 83, 97, 110, 115>>,    \* Open Sans
       <<77, 111, 110, 116, 115, 101, 114, 114, 97, 116>>,    \* Montserrat
       <<76, 97, 116, 111>>,    \* Lato
       <<83, 111, 117, 114, 99, 101, 32, 83, 97, 110, 115, 32, 80, 114, 111>>,    \* Source Sans Pro
       <<78, 111, 116, 111, 32, 83, 97, 110, 115>>,    \* Noto Sans
       <<85, 98, 117, 110, 116, 117>>,    \* Ubuntu
       <<82, 97, 108, 101, 119, 97, 121>>,    \* Raleway
       <<79, 115, 119, 97, 108, 100>>,    \* Oswald
       <<80, 84, 32, 83, 97, 110, 115>>,    \* PT Sans
       <<65, 112, 112, 108, 101, 32, 67, 111, 108, 111, 114, 32, 69, 109, 111, 106, 105>>,    \* Apple Color Emoji
       <<83, 101, 103, 111, 101, 32, 85, 73, 32, 69, 109, 111, 106, 105>>,    \* Segoe UI Emoji
       <<78, 111, 116, 111, 32, 67, 111, 108, 111, 114, 32, 69, 109, 111, 106, 105>> >>    \* Noto Color Emoji

\* detectEmojiRendering: const emojis (bff.js 1204)
CssEmojis ==
    << <<55357, 56832>>,    \* ?
       <<55356, 57256>>,    \* ?
       <<55357, 56613>>,    \* ?
       <<55357, 56507>>,    \* ?
       <<55356, 57096>> >>    \* ?

\* detectTextRendering: the keys `${font}:${text}` of const testStrings
\* (bff.js 1234-1238)
CssTextKeys ==
    << <<49, 54, 112, 120, 32, 65, 114, 105, 97, 108, 58, 84, 104, 101, 32, 113, 117, 105, 99, 107, 32, 98, 114, 111, 119, 110, 32, 102, 111, 120>>,
       <<49, 54, 112, 120, 32, 109, 111, 110, 111, 115, 112, 97, 99, 101, 58, 65, 66, 67, 68, 69, 70, 71, 72, 73, 74, 75, 76, 77>>,
       <<49, 54, 112, 120, 32, 115, 101, 114, 105, 102, 58, 97, 98, 99, 100, 101, 102, 103, 104, 105, 106, 107, 108, 109>> >>

\* the object a forEach over `keys` fills: results[key] = Value(k), k the
\* position of the key in the list
FilledMap(keys, Value(_)) == Map([k \in 1..Len(keys) |-> <<keys[k], Value(k)>>])

\* the fonts of `list` the host has installed, in list order
DetectedFonts(list, h) ==
    LET Installed(name) == name \in h.fonts
        found == SelectSeq(list, Installed)
    IN  Arr([j \in 1..Len(found) |-> Str(found[j])])

\* the value probe `field` of CSSFingerprint returns on a host that answers
CssOkValue(field, h) ==
    LET yes(k) == Bool(TRUE)
        third(k) == Bool(k % 3 # 0)
        even(k) == Bool(k % 2 = 0)
        metric(k) == Obj([width |-> Num(100 + k), actualBoundingBoxAscent |-> Num(12),
                          actualBoundingBoxDescent |-> Num(3), fontBoundingBoxAscent |-> Num(15),
                          fontBoundingBoxDescent |-> Num(4)])
        pixel(k) == Str(IntStr(k) \o <<44, 50, 44, 51, 44, 50, 53, 53>>)
        emoji(k) == Num(7 * k - 123456)
        text(k) == Obj([width |-> Num(130 + k), ascent |-> Num(12), descent |-> Num(3)])
    IN
    CASE field = "cssProperties" -> FilledMap(CssPropertyNames, third)
      [] field = "fontMetrics" -> FilledMap(CssMetricFonts, metric)
      [] field = "mediaQueries" -> FilledMap(CssMediaQueries, even)
      [] field = "scrollbar" -> Obj([width |-> Num(15), height |-> Num(15)])
      [] field = "colorPrecision" -> FilledMap(CssTestColors, pixel)
      [] field = "cssFilters" -> FilledMap(CssFilterNames, yes)
      [] field = "cssTransforms" -> FilledMap(CssTransformNames, yes)
      [] field = "cssBlending" -> FilledMap(CssBlendModes, third)
      [] field = "cssGrid" ->
            Obj([supported |-> Bool(TRUE), subgrid |-> Bool(FALSE), masonry |-> Bool(FALSE)])
      [] field = "cssVariables" -> Obj([supported |-> Bool(TRUE), env |-> Bool(TRUE)])
      [] field = "fontList" -> DetectedFonts(CssTestFonts, h)
      [] field = "emojiRendering" -> FilledMap(CssEmojis, emoji)
      [] field = "textRendering" -> FilledMap(CssTextKeys, text)
      [] field = "borderRadius" ->
            Obj([borderRadius |-> Str(<<53, 48, 37>>), borderTopLeftRadius |-> Str(<<53, 48, 37>>),
                 borderTopRightRadius |-> Str(<<53, 48, 37>>), borderBottomLeftRadius |-> Str(<<53, 48, 37>>),
                 borderBottomRightRadius |-> Str(<<53, 48, 37>>)])
      [] field = "boxShadow" -> Str(<<114, 103, 98, 97, 40, 48, 44, 32, 48, 44, 32, 48, 44, 32, 48, 46, 53, 41, 32, 53, 112, 120, 32, 53, 112, 120, 32, 49, 48, 112, 120, 32, 48, 112, 120>>)

\* this.fingerprint = { cssProperties: ..., ... }, bff.js 830-847
CssAssemble(results) ==
    Obj([cssProperties |-> results[1], fontMetrics |-> results[2], mediaQueries |-> results[3],
         scrollbar |-> results[4], colorPrecision |-> results[5], cssFilters |-> results[6],
         cssTransforms |-> results[7], cssBlending |-> results[8], cssGrid |-> results[9],
         cssVariables |-> results[10], fontList |-> results[11], emojiRendering |-> results[12],
         textRendering |-> results[13], borderRadius |-> results[14], boxShadow |-> results[15]])

\* Object.keys(v): the keys in insertion order
Keys(v) == IF v.t = "map" THEN Arr([j \in 1..Len(v.m) |-> Str(v.m[j][1])]) ELSE Arr(<<>>)

\* v[key] of a map
Lookup(v, key) ==
    IF v.t = "map" /\ \E j \in 1..Len(v.m) : v.m[j][1] = key
    THEN v.m[CHOOSE j \in 1..Len(v.m) : v.m[j][1] = key][2]
    ELSE Undef

\* the literal prefixes of the template strings of bff.js 1298-1340
CssLabel ==
    [ sb |-> <<115, 98, 58>>, grid |-> <<103, 114, 105, 100, 58>>, subgrid |-> <<115, 117, 98, 103, 114, 105, 100, 58>>, vars |-> <<118, 97, 114, 115, 58>>,
      fonts |-> <<102, 111, 110, 116, 115, 58>>, prop |-> <<112, 114, 111, 112, 58>>, mq |-> <<109, 113, 58>>, filter |-> <<102, 105, 108, 116, 101, 114, 58>>,
      blend |-> <<98, 108, 101, 110, 100, 58>>, fm |-> <<102, 109, 58>>, emoji |-> <<101, 109, 111, 106, 105, 58>>, shadow |-> <<115, 104, 97, 100, 111, 119, 58>>,
      radius |-> <<114, 97, 100, 105, 117, 115, 58>> ]

\* Object.keys(m || {}): the keys as inserted
InsertionKeys(m) == Keys(OrElse(m, Map(<<>>)))

\* Object.keys(m || {}).sort()
SortedKeys(m) == Sort(Keys(OrElse(m, Map(<<>>))))

\* ...Object.keys(m || {}).sort().map(key => `${label}${key}:${Render(m[key])}`)
SortedEntries(m, label, Render(_)) ==
    LET keys == SortedKeys(m).a
    IN  [j \in 1..Len(keys) |-> label \o keys[j].s \o <<58>> \o Render(Lookup(m, keys[j].s))]

\* const stableFeatures = [...], bff.js 1296-1341
CssStableFeatures(fp) ==
    LET L == CssLabel
        plain(v) == ToStr(v)
        width(v) == ToFixed(Prop(v, "width").n, 1)
        sb == Prop(fp, "scrollbar")
        grid == Prop(fp, "cssGrid")
    IN  << L.sb \o ToStr(OrElse(Prop(sb, "width"), Num(0))) \o LetterX
                \o ToStr(OrElse(Prop(sb, "height"), Num(0))),
           L.grid \o ToStr(OrElse(Prop(grid, "supported"), Bool(FALSE))),
           L.subgrid \o ToStr(OrElse(Prop(grid, "subgrid"), Bool(FALSE))),
           L.vars \o ToStr(OrElse(Prop(Prop(fp, "cssVariables"), "supported"), Bool(FALSE))),
           L.fonts \o ToStr(OrElse(Length(Prop(fp, "fontList")), Num(0))) >>
        \o SortedEntries(Prop(fp, "cssProperties"), L.prop, plain)
        \o SortedEntries(Prop(fp, "mediaQueries"), L.mq, plain)
        \o SortedEntries(Prop(fp, "cssFilters"), L.filter, plain)
        \o SortedEntries(Prop(fp, "cssBlending"), L.blend, plain)
        \o SortedEntries(Prop(fp, "fontMetrics"), L.fm, width)
        \o SortedEntries(Prop(fp, "emojiRendering"), L.emoji, plain)
        \o << L.shadow \o ToStr(OrElse(Prop(fp, "boxShadow"), EmptyStr)),
              L.radius \o ToStr(OrElse(Prop(Prop(fp, "borderRadius"), "borderRadius"), EmptyStr)) >>

\* the string CSSFingerprint.getHash returns
CssGetHash(fp) == CssFoldLoop(JoinStrs(CssStableFeatures(fp), <<124>>))

----------------------------------------------------------------------------
(* AdvancedCSSFingerprint (bff.js 1391-1834).                                *)

\* the probes in the order generate() lists them (bff.js 1402-1424): all are
\* async functions without try/catch, and none suspends
AdvProbes ==
    << [name |-> "detectFonts",                field |-> "fonts",                catch |-> FALSE, kind |-> "sync", missing |-> "throw"],
       [name |-> "detectColorScheme",          field |-> "colorScheme",          catch |-> FALSE, kind |-> "sync", missing |-> "throw"],
       [name |-> "detectPrefersReducedMotion", field |-> "prefersReducedMotion", catch |-> FALSE, kind |-> "sync", missing |-> "throw"],
       [name |-> "detectPrefersContrast",      field |-> "prefersContrast",      catch |-> FALSE, kind |-> "sync", missing |-> "throw"],
       [name |-> "detectForcedColors",         field |-> "forcedColors",         catch |-> FALSE, kind |-> "sync", missing |-> "throw"],
       [name |-> "detectInvertedColors",       field |-> "invertedColors",       catch |-> FALSE, kind |-> "sync", missing |-> "throw"],
       [name |-> "detectOrientation",          field |-> "orientation",          catch |-> FALSE, kind |-> "sync", missing |-> "throw"],
       [name |-> "detectPointerType",          field |-> "pointerType",          catch |-> FALSE, kind |-> "sync", missing |-> "throw"],
       [name |-> "detectHoverCapability",      field |-> "hoverCapability",      catch |-> FALSE, kind |-> "sync", missing |-> "throw"],
       [name |-> "detectDisplayMode",          field |-> "displayMode",          catch |-> FALSE, kind |-> "sync", missing |-> "throw"],
       [name |-> "detectScreenResolution",     field |-> "screenResolution",     catch |-> FALSE, kind |-> "sync", missing |-> "throw"],
       [name |-> "detectDevicePixelRatio",     field |-> "devicePixelRatio",     catch |-> FALSE, kind |-> "sync", missing |-> "none"],
       [name |-> "detectColorGamut",           field |-> "colorGamut",           catch |-> FALSE, kind |-> "sync", missing |-> "throw"],
       [name |-> "detectDynamicRange",         field |-> "dynamicRange",         catch |-> FALSE, kind |-> "sync", missing |-> "throw"],
       [name |-> "detectMonochrome",           field |-> "monochrome",           catch |-> FALSE, kind |-> "sync", missing |-> "throw"],
       [name |-> "detectGrid",                 field |-> "grid",                 catch |-> FALSE, kind |-> "sync", missing |-> "throw"],
       [name |-> "detectUpdate",               field |-> "update",               catch |-> FALSE, kind |-> "sync", missing |-> "throw"],
       [name |-> "detectOverflowBlock",        field |-> "overflowBlock",        catch |-> FALSE, kind |-> "sync", missing |-> "throw"],
       [name |-> "detectOverflowInline",       field |-> "overflowInline",       catch |-> FALSE, kind |-> "sync", missing |-> "throw"],
       [name |-> "detectScan",                 field |-> "scan",                 catch |-> FALSE, kind |-> "sync", missing |-> "throw"],
       [name |-> "detectScripting",            field |-> "scripting",            catch |-> FALSE, kind |-> "sync", missing |-> "throw"] >>

\* detectFonts: const commonFonts (bff.js 1494-1527)
AdvCommonFonts ==
    << <<65, 114, 105, 97, 108>>,    \* Arial
       <<65, 114, 105, 97, 108, 32, 66, 108, 97, 99, 107>>,    \* Arial Black
       <<66, 97, 104, 110, 115, 99, 104, 114, 105, 102, 116>>,    \* Bahnschrift
       <<67, 97, 108, 105, 98, 114, 105>>,    \* Calibri
       <<67, 97, 109, 98, 114, 105, 97>>,    \* Cambria
       <<67, 97, 109, 98, 114, 105, 97, 32, 77, 97, 116, 104>>,    \* Cambria Math
       <<67, 97, 110, 100, 97, 114, 97>>,    \* Candara
       <<67, 111, 109, 105, 99, 32, 83, 97, 110, 115, 32, 77, 83>>,    \* Comic Sans MS
       <<67, 111, 110, 115, 111, 108, 97, 115>>,    \* Consolas
       <<67, 111, 110, 115, 116, 97, 110, 116, 105, 97>>,    \* Constantia
       <<67, 111, 114, 98, 101, 108>>,    \* Corbel
       <<67, 111, 117, 114, 105, 101, 114, 32, 78, 101, 119>>,    \* Courier New
       <<69, 98, 114, 105, 109, 97>>,    \* Ebrima
       <<70, 114, 97, 110, 107, 108, 105, 110, 32, 71, 111, 116, 104, 105, 99, 32, 77, 101, 100, 105, 117, 109>>,    \* Franklin Gothic Medium
       <<71, 97, 98, 114, 105, 111, 108, 97>>,    \* Gabriola
       <<71, 97, 100, 117, 103, 105>>,    \* Gadugi
       <<71, 101, 111, 114, 103, 105, 97>>,    \* Georgia
       <<72, 111, 108, 111, 76, 101, 110, 115, 32, 77, 68, 76, 50, 32, 65, 115, 115, 101, 116, 115>>,    \* HoloLens MDL2 Assets
       <<73, 109, 112, 97, 99, 116>>,    \* Impact
       <<73, 110, 107, 32, 70, 114, 101, 101>>,    \* Ink Free
       <<74, 97, 118, 97, 110, 101, 115, 101, 32, 84, 101, 120, 116>>,    \* Javanese Text
       <<76, 101, 101, 108, 97, 119, 97, 100, 101, 101, 32, 85, 73>>,    \* Leelawadee UI
       <<76, 117, 99, 105, 100, 97, 32, 67, 111, 110, 115, 111, 108, 101>>,    \* Lucida Console
       <<76, 117, 99, 105, 100, 97, 32, 83, 97, 110, 115, 32, 85, 110, 105, 99, 111, 100, 101>>,    \* Lucida Sans Unicode
       <<77, 97, 108, 103, 117, 110, 32, 71, 111, 116, 104, 105, 99>>,    \* Malgun Gothic
       <<77, 97, 114, 108, 101, 116, 116>>,    \* Marlett
       <<77, 105, 99, 114, 111, 115, 111, 102, 116, 32, 72, 105, 109, 97, 108, 97, 121, 97>>,    \* Microsoft Himalaya
       <<77, 105, 99, 114, 111, 115, 111, 102, 116, 32, 74, 104, 101, 110, 103, 72, 101, 105>>,    \* Microsoft JhengHei
       <<77, 105, 99, 114, 111, 115, 111, 102, 116, 32, 78, 101, 119, 32, 84, 97, 105, 32, 76, 117, 101>>,    \* Microsoft New Tai Lue
       <<77, 105, 99, 114, 111, 115, 111, 102, 116, 32, 80, 104, 97, 103, 115, 80, 97>>,    \* Microsoft PhagsPa
       <<77, 105, 99, 114, 111, 115, 111, 102, 116, 32, 83, 97, 110, 115, 32, 83, 101, 114, 105, 102>>,    \* Microsoft Sans Serif
       <<77, 105, 99, 114, 111, 115, 111, 102, 116, 32, 84, 97, 105, 32, 76, 101>>,    \* Microsoft Tai Le
       <<77, 105, 99, 114, 111, 115, 111, 102, 116, 32, 89, 97, 72, 101, 105>>,    \* Microsoft YaHei
       <<77, 105, 99, 114, 111, 115, 111, 102, 116, 32, 89, 105, 32, 66, 97, 105, 116, 105>>,    \* Microsoft Yi Baiti
       <<77, 105, 110, 103, 76, 105, 85, 45, 69, 120, 116, 66>>,    \* MingLiU-ExtB
       <<77, 111, 110, 103, 111, 108, 105, 97, 110, 32, 66, 97, 105, 116, 105>>,    \* Mongolian Baiti
       <<77, 83, 32, 71, 111, 116, 104, 105, 99>>,    \* MS Gothic
       <<77, 86, 32, 66, 111, 108, 105>>,    \* MV Boli
       <<77, 121, 97, 110, 109, 97, 114, 32, 84, 101, 120, 116>>,    \* Myanmar Text
       <<78, 105, 114, 109, 97, 108, 97, 32, 85, 73>>,    \* Nirmala UI
       <<80, 97, 108, 97, 116, 105, 110, 111, 32, 76, 105, 110, 111, 116, 121, 112, 101>>,    \* Palatino Linotype
       <<83, 101, 103, 111, 101, 32, 77, 68, 76, 50, 32, 65, 115, 115, 101, 116, 115>>,    \* Segoe MDL2 Assets
       <<83, 101, 103, 111, 101, 32, 80, 114, 105, 110, 116>>,    \* Segoe Print
       <<83, 101, 103, 111, 101, 32, 83, 99, 114, 105, 112, 116>>,    \* Segoe Script
       <<83, 101, 103, 111, 101, 32, 85, 73>>,    \* Segoe UI
       <<83, 101, 103, 111, 101, 32, 85, 73, 32, 72, 105, 115, 116, 111, 114, 105, 99>>,    \* Segoe UI Historic
       <<83, 101, 103, 111, 101, 32, 85, 73, 32, 69, 109, 111, 106, 105>>,    \* Segoe UI Emoji
       <<83, 101, 103, 111, 101, 32, 85, 73, 32, 83, 121, 109, 98, 111, 108>>,    \* Segoe UI Symbol
       <<83, 105, 109, 83, 117, 110>>,    \* SimSun
       <<83, 105, 116, 107, 97>>,    \* Sitka
       <<83, 121, 108, 102, 97, 101, 110>>,    \* Sylfaen
       <<83, 121, 109, 98, 111, 108>>,    \* Symbol
       <<84, 97, 104, 111, 109, 97>>,    \* Tahoma
       <<84, 105, 109, 101, 115, 32, 78, 101, 119, 32, 82, 111, 109, 97, 110>>,    \* Times New Roman
       <<84, 114, 101, 98, 117, 99, 104, 101, 116, 32, 77, 83>>,    \* Trebuchet MS
       <<86, 101, 114, 100, 97, 110, 97>>,    \* Verdana
       <<87, 101, 98, 100, 105, 110, 103, 115>>,    \* Webdings
       <<87, 105, 110, 103, 100, 105, 110, 103, 115>>,    \* Wingdings
       <<89, 117, 32, 71, 111, 116, 104, 105, 99>>,    \* Yu Gothic
       <<65, 109, 101, 114, 105, 99, 97, 110, 32, 84, 121, 112, 101, 119, 114, 105, 116, 101, 114>>,    \* American Typewriter
       <<65, 110, 100, 97, 108, 101, 32, 77, 111, 110, 111>>,    \* Andale Mono
       <<65, 112, 112, 108, 101, 32, 67, 104, 97, 110, 99, 101, 114, 121>>,    \* Apple Chancery
       <<65, 112, 112, 108, 101, 32, 67, 111, 108, 111, 114, 32, 69, 109, 111, 106, 105>>,    \* Apple Color Emoji
       <<65, 112, 112, 108, 101, 32, 83, 68, 32, 71, 111, 116, 104, 105, 99, 32, 78, 101, 111>>,    \* Apple SD Gothic Neo
       <<65, 114, 105, 97, 108, 32, 72, 101, 98, 114, 101, 119>>,    \* Arial Hebrew
       <<65, 114, 105, 97, 108, 32, 82, 111, 117, 110, 100, 101, 100, 32, 77, 84, 32, 66, 111, 108, 100>>,    \* Arial Rounded MT Bold
       <<65, 118, 101, 110, 105, 114>>,    \* Avenir
       <<65, 118, 101, 110, 105, 114, 32, 78, 101, 120, 116>>,    \* Avenir Next
       <<65, 118, 101, 110, 105, 114, 32, 78, 101, 120, 116, 32, 67, 111, 110, 100, 101, 110, 115, 101, 100>>,    \* Avenir Next Condensed
       <<66, 97, 115, 107, 101, 114, 118, 105, 108, 108, 101>>,    \* Baskerville
       <<66, 105, 103, 32, 67, 97, 115, 108, 111, 110>>,    \* Big Caslon
       <<66, 111, 100, 111, 110, 105, 32, 55, 50>>,    \* Bodoni 72
       <<66, 111, 100, 111, 110, 105, 32, 55, 50, 32, 79, 108, 100, 115, 116, 121, 108, 101>>,    \* Bodoni 72 Oldstyle
       <<66, 111, 100, 111, 110, 105, 32, 55, 50, 32, 83, 109, 97, 108, 108, 99, 97, 112, 115>>,    \* Bodoni 72 Smallcaps
       <<66, 114, 97, 100, 108, 101, 121, 32, 72, 97, 110, 100>>,    \* Bradley Hand
       <<66, 114, 117, 115, 104, 32, 83, 99, 114, 105, 112, 116, 32, 77, 84>>,    \* Brush Script MT
       <<67, 104, 97, 108, 107, 98, 111, 97, 114, 100>>,    \* Chalkboard
       <<67, 104, 97, 108, 107, 98, 111, 97, 114, 100, 32, 83, 69>>,    \* Chalkboard SE
       <<67, 104, 97, 108, 107, 100, 117, 115, 116, 101, 114>>,    \* Chalkduster
       <<67, 104, 97, 114, 116, 101, 114>>,    \* Charter
       <<67, 111, 99, 104, 105, 110>>,    \* Cochin
       <<67, 111, 112, 112, 101, 114, 112, 108, 97, 116, 101>>,    \* Copperplate
       <<67, 111, 117, 114, 105, 101, 114>>,    \* Courier
       <<68, 105, 100, 111, 116>>,    \* Didot
       <<68, 73, 78, 32, 65, 108, 116, 101, 114, 110, 97, 116, 101>>,    \* DIN Alternate
       <<68, 73, 78, 32, 67, 111, 110, 100, 101, 110, 115, 101, 100>>,    \* DIN Condensed
       <<70, 117, 116, 117, 114, 97>>,    \* Futura
       <<71, 101, 110, 101, 118, 97>>,    \* Geneva
       <<71, 105, 108, 108, 32, 83, 97, 110, 115>>,    \* Gill Sans
       <<72, 101, 108, 118, 101, 116, 105, 99, 97>>,    \* Helvetica
       <<72, 101, 108, 118, 101, 116, 105, 99, 97, 32, 78, 101, 117, 101>>,    \* Helvetica Neue
       <<72, 101, 114, 99, 117, 108, 97, 110, 117, 109>>,    \* Herculanum
       <<72, 111, 101, 102, 108, 101, 114, 32, 84, 101, 120, 116>>,    \* Hoefler Text
       <<76, 117, 99, 105, 100, 97, 32, 71, 114, 97, 110, 100, 101>>,    \* Lucida Grande
       <<76, 117, 109, 105, 110, 97, 114, 105>>,    \* Luminari
       <<77, 97, 114, 107, 101, 114, 32, 70, 101, 108, 116>>,    \* Marker Felt
       <<77, 101, 110, 108, 111>>,    \* Menlo
       <<77, 111, 110, 97, 99, 111>>,    \* Monaco
       <<78, 111, 116, 101, 119, 111, 114, 116, 104, 121>>,    \* Noteworthy
       <<79, 112, 116, 105, 109, 97>>,    \* Optima
       <<80, 97, 108, 97, 116, 105, 110, 111>>,    \* Palatino
       <<80, 97, 112, 121, 114, 117, 115>>,    \* Papyrus
       <<80, 104, 111, 115, 112, 104, 97, 116, 101>>,    \* Phosphate
       <<82, 111, 99, 107, 119, 101, 108, 108>>,    \* Rockwell
       <<83, 97, 118, 111, 121, 101, 32, 76, 69, 84>>,    \* Savoye LET
       <<83, 105, 103, 110, 80, 97, 105, 110, 116, 101, 114>>,    \* SignPainter
       <<83, 107, 105, 97>>,    \* Skia
       <<83, 110, 101, 108, 108, 32, 82, 111, 117, 110, 100, 104, 97, 110, 100>>,    \* Snell Roundhand
       <<84, 97, 104, 111, 109, 97>>,    \* Tahoma
       <<84, 105, 109, 101, 115>>,    \* Times
       <<84, 114, 97, 116, 116, 97, 116, 101, 108, 108, 111>>,    \* Trattatello
       <<90, 97, 112, 102, 105, 110, 111>>,    \* Zapfino
       <<85, 98, 117, 110, 116, 117>>,    \* Ubuntu
       <<85, 98, 117, 110, 116, 117, 32, 67, 111, 110, 100, 101, 110, 115, 101, 100>>,    \* Ubuntu Condensed
       <<85, 98, 117, 110, 116, 117, 32, 77, 111, 110, 111>>,    \* Ubuntu Mono
       <<68, 101, 106, 97, 86, 117, 32, 83, 97, 110, 115>>,    \* DejaVu Sans
       <<68, 101, 106, 97, 86, 117, 32, 83, 97, 110, 115, 32, 77, 111, 110, 111>>,    \* DejaVu Sans Mono
       <<68, 101, 106, 97, 86, 117, 32, 83, 101, 114, 105, 102>>,    \* DejaVu Serif
       <<68, 114, 111, 105, 100, 32, 83, 97, 110, 115>>,    \* Droid Sans
       <<68, 114, 111, 105, 100, 32, 83, 97, 110, 115, 32, 77, 111, 110, 111>>,    \* Droid Sans Mono
       <<68, 114, 111, 105, 100, 32, 83, 101, 114, 105, 102>>,    \* Droid Serif
       <<70, 114, 101, 101, 77, 111, 110, 111>>,    \* FreeMono
       <<70, 114, 101, 101, 83, 97, 110, 115>>,    \* FreeSans
       <<70, 114, 101, 101, 83, 101, 114, 105, 102>>,    \* FreeSerif
       <<76, 105, 98, 101, 114, 97, 116, 105, 111, 110, 32, 77, 111, 110, 111>>,    \* Liberation Mono
       <<76, 105, 98, 101, 114, 97, 116, 105, 111, 110, 32, 83, 97, 110, 115>>,    \* Liberation Sans
       <<76, 105, 98, 101, 114, 97, 116, 105, 111, 110, 32, 83, 101, 114, 105, 102>>,    \* Liberation Serif
       <<78, 111, 116, 111, 32, 83, 97, 110, 115>>,    \* Noto Sans
       <<78, 111, 116, 111, 32, 83, 101, 114, 105, 102>>,    \* Noto Serif
       <<82, 111, 98, 111, 116, 111>>,    \* Roboto
       <<82, 111, 98, 111, 116, 111, 32, 67, 111, 110, 100, 101, 110, 115, 101, 100>>,    \* Roboto Condensed
       <<82, 111, 98, 111, 116, 111, 32, 77, 111, 110, 111>>,    \* Roboto Mono
       <<82, 111, 98, 111, 116, 111, 32, 83, 108, 97, 98>>,    \* Roboto Slab
       <<79, 112, 101, 110, 32, 83, 97, 110, 115>>,    \* Open Sans
       <<76, 97, 116, 111>>,    \* Lato
       <<77, 111, 110, 116, 115, 101, 114, 114, 97, 116>>,    \* Montserrat
       <<83, 111, 117, 114, 99, 101, 32, 83, 97, 110, 115, 32, 80, 114, 111>>,    \* Source Sans Pro
       <<82, 97, 108, 101, 119, 97, 121>>,    \* Raleway
       <<80, 84, 32, 83, 97, 110, 115>>,    \* PT Sans
       <<79, 115, 119, 97, 108, 100>>,    \* Oswald
       <<77, 101, 114, 114, 105, 119, 101, 97, 116, 104, 101, 114>>,    \* Merriweather
       <<80, 108, 97, 121, 102, 97, 105, 114, 32, 68, 105, 115, 112, 108, 97, 121>>,    \* Playfair Display
       <<80, 111, 112, 112, 105, 110, 115>>,    \* Poppins
       <<73, 110, 116, 101, 114>>,    \* Inter
       <<78, 117, 110, 105, 116, 111>> >>    \* Nunito

\* the value probe `field` of AdvancedCSSFingerprint returns on a host that
\* answers
AdvOkValue(field, h) ==
    CASE field = "fonts" -> DetectedFonts(AdvCommonFonts, h)
      [] field = "colorScheme" -> Str(<<108, 105, 103, 104, 116>>)
      [] field = "prefersReducedMotion" -> Bool(FALSE)
      [] field = "prefersContrast" -> Str(<<110, 111, 45, 112, 114, 101, 102, 101, 114, 101, 110, 99, 101>>)
      [] field = "forcedColors" -> Str(<<110, 111, 110, 101>>)
      [] field = "invertedColors" -> Str(<<110, 111, 110, 101>>)
      [] field = "orientation" -> Str(<<108, 97, 110, 100, 115, 99, 97, 112, 101>>)
      [] field = "pointerType" -> Str(<<102, 105, 110, 101>>)
      [] field = "hoverCapability" -> Str(<<104, 111, 118, 101, 114>>)
      [] field = "displayMode" -> Str(<<98, 114, 111, 119, 115, 101, 114>>)
      [] field = "screenResolution" ->
            Obj([width |-> Num(1920), height |-> Num(1080), availWidth |-> Num(1920),
                 availHeight |-> Num(1040), colorDepth |-> Num(24), pixelDepth |-> Num(24)])
      [] field = "devicePixelRatio" -> Num(2)
      [] field = "colorGamut" -> Str(<<115, 114, 103, 98>>)
      [] field = "dynamicRange" -> Str(<<115, 116, 97, 110, 100, 97, 114, 100>>)
      [] field = "monochrome" -> Bool(FALSE)
      [] field = "grid" -> Bool(FALSE)
      [] field = "update" -> Str(<<102, 97, 115, 116>>)
      [] field = "overflowBlock" -> Str(<<115, 99, 114, 111, 108, 108>>)
      [] field = "overflowInline" -> Str(<<115, 99, 114, 111, 108, 108>>)
      [] field = "scan" -> Str(<<117, 110, 107, 110, 111, 119, 110>>)
      [] field = "scripting" -> Str(<<101, 110, 97, 98, 108, 101, 100>>)

\* this.results = { fonts: results[0], ... }, bff.js 1426-1448
AdvAssemble(results) ==
    Obj([fonts |-> results[1], colorScheme |-> results[2], prefersReducedMotion |-> results[3],
         prefersContrast |-> results[4], forcedColors |-> results[5],
         invertedColors |-> results[6], orientation |-> results[7], pointerType |-> results[8],
         hoverCapability |-> results[9], displayMode |-> results[10],
         screenResolution |-> results[11], devicePixelRatio |-> results[12],
         colorGamut |-> results[13], dynamicRange |-> results[14], monochrome |-> results[15],
         grid |-> results[16], update |-> results[17], overflowBlock |-> results[18],
         overflowInline |-> results[19], scan |-> results[20], scripting |-> results[21]])

\* the literal prefixes of the template strings of bff.js 1786-1804
AdvLabel ==
    [ fonts |-> <<102, 111, 110, 116, 115, 58>>, colorScheme |-> <<99, 111, 108, 111, 114, 83, 99, 104, 101, 109, 101, 58>>, reducedMotion |-> <<114, 101, 100, 117, 99, 101, 100, 77, 111, 116, 105, 111, 110, 58>>,
      contrast |-> <<99, 111, 110, 116, 114, 97, 115, 116, 58>>, forcedColors |-> <<102, 111, 114, 99, 101, 100, 67, 111, 108, 111, 114, 115, 58>>,
      invertedColors |-> <<105, 110, 118, 101, 114, 116, 101, 100, 67, 111, 108, 111, 114, 115, 58>>, orientation |-> <<111, 114, 105, 101, 110, 116, 97, 116, 105, 111, 110, 58>>,
      pointer |-> <<112, 111, 105, 110, 116, 101, 114, 58>>, hover |-> <<104, 111, 118, 101, 114, 58>>, displayMode |-> <<100, 105, 115, 112, 108, 97, 121, 77, 111, 100, 101, 58>>,
      resolution |-> <<114, 101, 115, 111, 108, 117, 116, 105, 111, 110, 58>>, dpr |-> <<100, 112, 114, 58>>, colorGamut |-> <<99, 111, 108, 111, 114, 71, 97, 109, 117, 116, 58>>,
      dynamicRange |-> <<100, 121, 110, 97, 109, 105, 99, 82, 97, 110, 103, 101, 58>>, monochrome |-> <<109, 111, 110, 111, 99, 104, 114, 111, 109, 101, 58>>, grid |-> <<103, 114, 105, 100, 58>>,
      update |-> <<117, 112, 100, 97, 116, 101, 58>>, font |-> <<102, 111, 110, 116, 58>> ]

\* how many fonts enter the hash: slice(0, 10), bff.js 1804
FontSlice == 10

\* (this.results.fonts || []).slice(0, 10).sort(): a sorted copy
SlicedFonts(fp) ==
    LET fonts == OrElse(Prop(fp, "fonts"), Arr(<<>>)).a
        n == IF Len(fonts) < FontSlice THEN Len(fonts) ELSE FontSlice
    IN  Sort(Arr(SubSeq(fonts, 1, n))).a

\* const features = [...], bff.js 1785-1805
AdvStableFeatures(fp) ==
    LET L == AdvLabel
        res == Prop(fp, "screenResolution")
        sliced == SlicedFonts(fp)
    IN  << L.fonts \o ToStr(OrElse(Length(Prop(fp, "fonts")), Num(0))),
           L.colorScheme \o ToStr(Prop(fp, "colorScheme")),
           L.reducedMotion \o ToStr(Prop(fp, "prefersReducedMotion")),
           L.contrast \o ToStr(Prop(fp, "prefersContrast")),
           L.forcedColors \o ToStr(Prop(fp, "forcedColors")),
           L.invertedColors \o ToStr(Prop(fp, "invertedColors")),
           L.orientation \o ToStr(Prop(fp, "orientation")),
           L.pointer \o ToStr(Prop(fp, "pointerType")),
           L.hover \o ToStr(Prop(fp, "hoverCapability")),
           L.displayMode \o ToStr(Prop(fp, "displayMode")),
           L.resolution \o ToStr(Prop(res, "width")) \o LetterX \o ToStr(Prop(res, "height")),
           L.dpr \o ToStr(Prop(fp, "devicePixelRatio")),
           L.colorGamut \o ToStr(Prop(fp, "colorGamut")),
           L.dynamicRange \o ToStr(Prop(fp, "dynamicRange")),
           L.monochrome \o ToStr(Prop(fp, "monochrome")),
           L.grid \o ToStr(Prop(fp, "grid")),
           L.update \o ToStr(Prop(fp, "update")) >>
        \o [j \in 1..Len(sliced) |-> L.font \o ToStr(sliced[j])]

\* the string AdvancedCSSFingerprint.getHash returns
AdvGetHash(fp) == AdvFoldLoop(JoinStrs(AdvStableFeatures(fp), <<124>>))

----------------------------------------------------------------------------
(* generate(): the probe executor and the assembler.                         *)

Engines == {"abf", "css", "adv"}

\* the probes of an engine, in call order
Probes(e) == IF e = "abf" THEN AbfProbes ELSE IF e = "css" THEN CssProbes ELSE AdvProbes

NumProbes(e) == Len(Probes(e))

\* the record fields of an engine
Fields(e) == {Probes(e)[k].field : k \in 1..NumProbes(e)}

\* the value a probe returns on a host that supports it
OkValue(e, field, h) ==
    IF e = "abf" THEN AbfOkValue(field, h)
    ELSE IF e = "css" THEN CssOkValue(field, h)
    ELSE AdvOkValue(field, h)

\* the record with the results of detectWebGLRenderer and detectWebGLVendor
\* stored in each other's field
AbfAssembleSwapped(results) ==
    Obj([k \in {AbfProbes[j].field : j \in 1..Len(AbfProbes)} |->
           LET j == CHOOSE j \in 1..Len(AbfProbes) : AbfProbes[j].field = k
           IN  IF k = "webglRenderer" THEN results[j + 1]
               ELSE IF k = "webglVendor" THEN results[j - 1]
               ELSE results[j]])

\* this.fingerprint = { webgl: results[0], ... }, bff.js 49-80 (results is
\* 0-based in the source, 1-based here)
AbfAssemble(results) ==
    Obj([webgl |-> results[1], audio |-> results[2], canvas |-> results[3],
         webrtc |-> results[4], hardwareConcurrency |-> results[5],
         deviceMemory |-> results[6], battery |-> results[7], timezone |-> results[8],
         languages |-> results[9], plugins |-> results[10], mimeTypes |-> results[11],
         touchSupport |-> results[12], maxTouchPoints |-> results[13],
         screen |-> results[14], navigator |-> results[15], performance |-> results[16],
         webglRenderer |-> results[17], webglVendor |-> results[18],
         canvasTextMetrics |-> results[19], mathConstants |-> results[20],
         errorStack |-> results[21], domRect |-> results[22],
         speechSynthesis |-> results[23], mediaDevices |-> results[24],
         gamepad |-> results[25], vibration |-> results[26], network |-> results[27],
         storageQuota |-> results[28], indexedDB |-> results[29],
         webAssembly |-> results[30]])

\* the record without the fields whose probe returned null
AssembleNonNull(e, results) ==
    LET r == IF e = "abf" THEN AbfAssemble(results)
             ELSE IF e = "css" THEN CssAssemble(results)
             ELSE AdvAssemble(results)
    IN  Obj([f \in {g \in DOMAIN r.o : r.o[g].t # "null"} |-> r.o[f]])

\* the record generate() builds from the results, by class
Assemble(e, results) ==
    IF e = "abf" THEN AbfAssemble(results)
    ELSE IF e = "css" THEN CssAssemble(results)
    ELSE AdvAssemble(results)

\* getHash() of the instance's class on the stored record
GetHashOf(e, fp) ==
    IF e = "abf" THEN AbfGetHash(fp)
    ELSE IF e = "css" THEN CssGetHash(fp)
    ELSE AdvGetHash(fp)

(* The host.  cap[k] says how the host treats probe k:                      *)
(*   "ok"       the capability is there and every host call returns         *)
(*   "missing"  the capability is absent                                    *)
(*   "throws"   a host call in the probe's body throws                      *)
(*   "rejects"  the host promise an "await" probe waits for is rejected     *)
(*   "throwsInExecutor"  a host call inside the Promise executor of a       *)
(*              "timed" probe throws                                        *)
(*   "noOffline"  detectAudioContext only: AudioContext without             *)
(*              OfflineAudioContext (the fallback branch, bff.js 185-197)   *)

Faults(e, k) ==
    LET p == Probes(e)[k]
    IN  {"throws"}
        \cup (IF p.missing # "none" THEN {"missing"} ELSE {})
        \cup (IF p.kind = "await" THEN {"rejects"} ELSE {})
        \cup (IF p.kind = "timed" THEN {"throwsInExecutor"} ELSE {})
        \cup (IF p.name = "detectAudioContext" THEN {"noOffline"} ELSE {})

AllOk(e) == [k \in 1..NumProbes(e) |-> "ok"]

\* every capability that can be absent is absent
AllMissing(e) ==
    [k \in 1..NumProbes(e) |-> IF Probes(e)[k].missing # "none" THEN "missing" ELSE "ok"]

\* every capability whose absence the probe answers with null is absent
NullMissing(e) ==
    [k \in 1..NumProbes(e) |-> IF Probes(e)[k].missing = "null" THEN "missing" ELSE "ok"]

\* the hosts one behaviour runs on: the full host, every host with one
\* degraded probe, the host that lacks everything, and the host that lacks
\* every capability a probe tests for
HostCaps(e) ==
    {AllOk(e), AllMissing(e), NullMissing(e)}
    \cup UNION {{[AllOk(e) EXCEPT ![k] = c] : c \in Faults(e, k)} : k \in 1..NumProbes(e)}

\* the addresses the host's ICE agent can report
IceAddresses == {<<49, 48, 46, 48, 46, 48, 46, 49>>, <<49, 48, 46, 48, 46, 48, 46, 50>>}

\* how many candidate events the host delivers at most
MaxIce == 1

\* the extension names, languages and voices of the host
ExtNames == {<<79, 69, 83, 95, 97>>, <<69, 88, 84, 95, 98>>}

LangNames == {<<102, 114, 45, 70, 82>>, <<101, 110>>}

\* the fonts installed on the host: Arial, Tahoma, Georgia, Roboto
InstalledFonts == {<<65, 114, 105, 97, 108>>, <<84, 97, 104, 111, 109, 97>>,
                   <<71, 101, 111, 114, 103, 105, 97>>, <<82, 111, 98, 111, 116, 111>>}

VoiceNames == <<<<65, 108, 105, 99, 101>>, <<66, 111, 98>>>>

Pending == [st |-> "pending"]

Rejected == [st |-> "rejected"]

Unlaunched == [st |-> "unlaunched"]

Fulfilled(v) == [st |-> "fulfilled", v |-> v]

\* the promise a call of probe k returns, at the moment the call returns
\* (the body of an async function runs inside the call up to its first await)
LaunchOutcome(e, k, h) ==
    LET p == Probes(e)[k]
        c == h.cap[k]
        thrown == IF p.catch THEN Fulfilled(Null) ELSE Rejected
    IN  CASE c = "throws" -> thrown
          [] c = "missing" -> IF p.missing = "throw" THEN thrown ELSE Fulfilled(Null)
          [] c = "throwsInExecutor" -> Rejected
          [] c = "noOffline" ->
                Fulfilled(Obj([OkValue(e, p.field, h).o EXCEPT !["audioSum"] = Num(0)]))
          [] c = "rejects" -> Pending
          [] OTHER ->
                IF p.kind = "sync" THEN Fulfilled(OkValue(e, p.field, h))
                ELSE IF p.name = "detectSpeechSynthesis" /\ h.voicesNow
                     THEN Fulfilled(OkValue(e, p.field, h))
                ELSE Pending

\* the index of the probe with this name
ProbeIndex(e, name) == CHOOSE k \in 1..NumProbes(e) : Probes(e)[k].name = name

WebRtcIdle ==
    [pc |-> "none", handler |-> FALSE, ips |-> <<>>, timer |-> "none", ended |-> FALSE,
     events |-> 0]

\* the probe's state when a host call in its executor has thrown (bff.js
\* 261-265): the throw of `new RTCPeerConnection` leaves nothing behind; the
\* throw of createDataChannel or createOffer leaves the connection open, with
\* no handler and no timer, since both are set further down (bff.js 267, 280)
WebRtcAfterExecutorThrow == {WebRtcIdle, [WebRtcIdle EXCEPT !.pc = "open"]}

SpeechIdle == [handler |-> FALSE, timer |-> "none", changed |-> FALSE]

\* Promise.all(probes): fulfilled with the results in call order once every
\* promise is fulfilled, rejected as soon as one is rejected
AllFulfilled(e, o) == \A k \in 1..NumProbes(e) : o[k].st = "fulfilled"

SomeRejected(e, o) == \E k \in 1..NumProbes(e) : o[k].st = "rejected"

PromiseAllResults(e, o) == [k \in 1..NumProbes(e) |-> o[k].v]

RECURSIVE Perms(_)
\* the sequences that list each element of S once
Perms(S) ==
    IF S = {} THEN {<<>>}
    ELSE UNION {{<<x>> \o q : q \in Perms(S \ {x})} : x \in S}

\* the host lists in the order the executor runs use
DefaultExts == CHOOSE q \in Perms(ExtNames) : SortArr([j \in 1..Len(q) |-> Str(q[j])]) # [j \in 1..Len(q) |-> Str(q[j])]

DefaultLangs == CHOOSE q \in Perms(LangNames) : TRUE

\* the hosts of the executor runs of engine e
ExecHosts(e) ==
    [cap : HostCaps(e), exts : {DefaultExts}, langs : {DefaultLangs}, vol : {{}},
     voices : {VoiceNames}, voicesNow : BOOLEAN, fonts : {InstalledFonts}]

\* no second instance
NoInstance == [host |-> <<>>, fingerprint |-> EmptyObj, hashes |-> <<>>]

FoldIdle ==
    /\ str = <<>>
    /\ i = 0
    /\ hash = HashSeed
    /\ foldPc = "idle"
    /\ shiftNeg = FALSE
    /\ wrapped = FALSE

\* a fresh engine instance (constructor, bff.js 8-10) on some host
Init ==
    /\ engine \in Engines
    /\ host \in ExecHosts(engine)
    /\ gen = "idle"
    /\ launched = 0
    /\ outcome = [k \in 1..NumProbes(engine) |-> Unlaunched]
    /\ fingerprint = EmptyObj
    /\ returned = Undef
    /\ webrtc = WebRtcIdle
    /\ speech = SpeechIdle
    /\ inversion = FALSE
    /\ other = NoInstance
    /\ hashes = <<>>
    /\ args = <<>>
    /\ ret = <<>>
    /\ FoldIdle
    /\ HeapIdle

\* resolve(v) of the promise of probe k: a settled promise stays as it is
Resolve(o, k, v) == IF o[k].st = "pending" THEN [o EXCEPT ![k] = Fulfilled(v)] ELSE o

\* probe k settles now while a probe called before it is still pending
Overtakes(o, k) == o[k].st = "pending" /\ \E j \in 1..(k - 1) : o[j].st = "pending"

\* the caller calls generate()
GenerateCall ==
    /\ gen = "idle"
    /\ gen' = "running"
    /\ UNCHANGED <<heapVars, engine, host, launched, outcome, fingerprint, returned, webrtc, speech,
                   inversion, foldVars, hashVars, callVars>>

\* the probes that append a temporary node to document.body and remove it
\* before they return (bff.js 549-567, 981-1000, 1033-1059, 1064-1101,
\* 1258-1274, 1279-1289)
DomProbes ==
    {"detectDOMRectPrecision", "detectScrollbarDimensions", "detectCSSFilters",
     "detectCSSTransforms", "detectBorderRadiusQuirks", "detectBoxShadowQuirks"}

\* the host calls of such a probe, in order: document.createElement,
\* document.body.appendChild, the measurement (getBoundingClientRect,
\* offsetWidth, style.filter, getComputedStyle, ...), document.body.removeChild
DomSteps == <<"createElement", "appendChild", "measure", "removeChild">>

\* the host calls of probe p that can be the one that throws on a host of
\* capability c; "none": no call of a probe with a temporary node throws
ThrowPoints(p, c) ==
    IF p.name \in DomProbes /\ c = "throws" THEN {DomSteps[j] : j \in 1..Len(DomSteps)}
    ELSE {"none"}

\* the node is a child of document.body from the return of appendChild to the
\* return of removeChild
AttachedDuring(t) == t \in {"measure", "removeChild"}

\* the temporary nodes in the document when the call of probe `name` is over,
\* the host call t having thrown: a throw leaves the body (or enters the catch
\* of detectDOMRectPrecision, which returns null) without removing the node
DomAfterProbe(d, name, t) == IF AttachedDuring(t) THEN d \cup {name} ELSE d

\* generate() calls the next probe of the array literal (bff.js 16-47); the
\* call runs the probe's body up to its first suspension
Launch ==
    /\ gen = "running"
    /\ launched < NumProbes(engine)
    /\ LET k == launched + 1
           p == Probes(engine)[k]
           r == LaunchOutcome(engine, k, host)
       IN  /\ launched' = k
           /\ outcome' = [outcome EXCEPT ![k] = r]
           /\ webrtc' \in
                 IF p.name = "detectWebRTCFingerprint" /\ r = Pending
                 THEN {[WebRtcIdle EXCEPT !.pc = "open", !.handler = TRUE, !.timer = "pending"]}
                 ELSE IF p.name = "detectWebRTCFingerprint" /\ host.cap[k] = "throwsInExecutor"
                 THEN WebRtcAfterExecutorThrow
                 ELSE {webrtc}
           /\ speech' = IF p.name = "detectSpeechSynthesis" /\ r = Pending
                        THEN [SpeechIdle EXCEPT !.handler = TRUE, !.timer = "pending"]
                        ELSE speech
           \* CSSFingerprint.generate evaluates its probes inside its own body
           \* (bff.js 830-847): a throw leaves the body at once
           /\ gen' = IF engine = "css" /\ r = Rejected THEN "rejected" ELSE gen
           \* the temporary node of the probe, if a throw left it in the document
           /\ \E t \in ThrowPoints(p, host.cap[k]) : dom' = DomAfterProbe(dom, p.name, t)
    /\ UNCHANGED <<held, calls, engine, host, fingerprint, returned, inversion, foldVars,
                   hashVars, callVars>>

\* host events delivered as soon as generate() has been called
HostTurnWhileLaunching == gen # "idle"

\* the host events are delivered when no code of the engine is running
HostTurn == gen # "idle" /\ launched = NumProbes(engine)

\* the host settles the promise an "await" probe waits for: the probe returns
\* its value, or its catch returns null
HostSettle(k) ==
    /\ HostTurn
    /\ Probes(engine)[k].kind = "await"
    /\ outcome[k] = Pending
    /\ outcome' = [outcome EXCEPT ![k] =
                      IF host.cap[k] = "rejects" THEN Fulfilled(Null)
                      ELSE Fulfilled(OkValue(engine, Probes(engine)[k].field, host))]
    /\ inversion' = (inversion \/ Overtakes(outcome, k))
    /\ UNCHANGED <<heapVars, engine, host, gen, launched, fingerprint, returned, webrtc, speech, foldVars, hashVars, callVars>>

\* pc.onicecandidate with a candidate (bff.js 267-278)
IceCandidate(ip) ==
    /\ HostTurn
    /\ webrtc.pc = "open"
    /\ webrtc.handler
    /\ ~webrtc.ended
    /\ webrtc.events < MaxIce
    /\ webrtc' = [webrtc EXCEPT
                    !.events = @ + 1,
                    !.ips = IF \E j \in 1..Len(@) : @[j] = ip THEN @ ELSE Append(@, ip)]
    /\ UNCHANGED <<heapVars, engine, host, gen, launched, outcome, fingerprint, returned, speech,
                   inversion, foldVars, hashVars, callVars>>

\* { localIPs: [] }
WebRtcValueEmpty(ips) == Obj([localIPs |-> Arr(<<>>)])

\* { localIPs: ips }
WebRtcValue(ips) == Obj([localIPs |-> Arr([j \in 1..Len(ips) |-> Str(ips[j])])])

\* pc.onicecandidate without a candidate: gathering is over (bff.js 268-271)
IceEnd ==
    /\ HostTurn
    /\ webrtc.pc = "open"
    /\ webrtc.handler
    /\ ~webrtc.ended
    /\ LET k == ProbeIndex(engine, "detectWebRTCFingerprint")
       IN  /\ outcome' = Resolve(outcome, k, WebRtcValue(webrtc.ips))
           /\ inversion' = (inversion \/ Overtakes(outcome, k))
    /\ webrtc' = [webrtc EXCEPT !.ended = TRUE]
    /\ UNCHANGED <<heapVars, engine, host, gen, launched, fingerprint, returned, speech, foldVars, hashVars, callVars>>

\* the 1000 ms timer of detectWebRTCFingerprint (bff.js 280-283)
WebRtcTimeout ==
    /\ HostTurn
    /\ webrtc.timer = "pending"
    /\ LET k == ProbeIndex(engine, "detectWebRTCFingerprint")
       IN  /\ outcome' = Resolve(outcome, k, WebRtcValue(webrtc.ips))
           /\ inversion' = (inversion \/ Overtakes(outcome, k))
    /\ webrtc' = [webrtc EXCEPT !.pc = "closed", !.timer = "fired"]
    /\ UNCHANGED <<heapVars, engine, host, gen, launched, fingerprint, returned, speech, foldVars, hashVars, callVars>>

\* speechSynthesis.onvoiceschanged (bff.js 581-584)
VoicesChanged ==
    /\ HostTurn
    /\ speech.handler
    /\ ~speech.changed
    /\ LET k == ProbeIndex(engine, "detectSpeechSynthesis")
       IN  /\ outcome' = Resolve(outcome, k, OkValue(engine, "speechSynthesis", host))
           /\ inversion' = (inversion \/ Overtakes(outcome, k))
    /\ speech' = [speech EXCEPT !.changed = TRUE]
    /\ UNCHANGED <<heapVars, engine, host, gen, launched, fingerprint, returned, webrtc, foldVars, hashVars, callVars>>

\* the 1000 ms timer of detectSpeechSynthesis (bff.js 585)
SpeechTimeout ==
    /\ HostTurn
    /\ speech.timer = "pending"
    /\ LET k == ProbeIndex(engine, "detectSpeechSynthesis")
       IN  /\ outcome' = Resolve(outcome, k, Arr(<<>>))
           /\ inversion' = (inversion \/ Overtakes(outcome, k))
    /\ speech' = [speech EXCEPT !.timer = "fired"]
    /\ UNCHANGED <<heapVars, engine, host, gen, launched, fingerprint, returned, webrtc, foldVars, hashVars, callVars>>

\* await Promise.all(...) resumes: the record is built, stored and returned
\* (bff.js 49-82)
GenerateFulfil ==
    /\ gen = "running"
    /\ launched = NumProbes(engine)
    /\ AllFulfilled(engine, outcome)
    /\ fingerprint' = Assemble(engine, PromiseAllResults(engine, outcome))
    /\ returned' = fingerprint'
    /\ gen' = "fulfilled"
    /\ UNCHANGED <<heapVars, engine, host, launched, outcome, webrtc, speech, inversion, foldVars, hashVars, callVars>>

\* await Promise.all(...) throws: generate() rejects, nothing is stored
GenerateReject ==
    /\ engine # "css"
    /\ gen = "running"
    /\ launched = NumProbes(engine)
    /\ SomeRejected(engine, outcome)
    /\ gen' = "rejected"
    /\ UNCHANGED <<heapVars, engine, host, launched, outcome, fingerprint, returned, webrtc, speech,
                   inversion, foldVars, hashVars, callVars>>

Next ==
    \/ GenerateCall
    \/ Launch
    \/ \E k \in 1..NumProbes(engine) : HostSettle(k)
    \/ \E ip \in IceAddresses : IceCandidate(ip)
    \/ IceEnd
    \/ WebRtcTimeout
    \/ VoicesChanged
    \/ SpeechTimeout
    \/ GenerateFulfil
    \/ GenerateReject

Spec == Init /\ [][Next]_vars

----------------------------------------------------------------------------
(* getHash() on the records two instances of one class hold after their     *)
(* generate() calls have completed.                                         *)

\* how many getHash() calls one instance receives at most
MaxCalls == 2

\* the value probe k ends with on host h once the host has settled what the
\* probe waits for
FinalValue(e, k, h) ==
    LET r == LaunchOutcome(e, k, h)
    IN  IF r.st = "fulfilled" THEN r.v
        ELSE IF h.cap[k] = "rejects" THEN Null
        ELSE OkValue(e, Probes(e)[k].field, h)

\* no probe call of generate() throws or rejects on host h
Completes(e, h) == \A k \in 1..NumProbes(e) : LaunchOutcome(e, k, h).st # "rejected"

\* the record generate() stores and returns on host h
RecordOn(e, h) == Assemble(e, [k \in 1..NumProbes(e) |-> FinalValue(e, k, h)])

\* the orders in which a host can list its extensions and languages, and the
\* font sets it can have; only the records of the classes that read them vary
ExtOrders(e) == IF e = "abf" THEN Perms(ExtNames) ELSE {DefaultExts}

LangOrders(e) == IF e = "abf" THEN Perms(LangNames) ELSE {DefaultLangs}

FontSets(e) == IF e = "abf" THEN {InstalledFonts} ELSE SUBSET InstalledFonts

\* the hosts on which generate() of engine e has completed
HashHosts(e) ==
    {h \in [cap : {AllOk(e), NullMissing(e)}, exts : ExtOrders(e), langs : LangOrders(e), vol : {{}},
            voices : {VoiceNames}, voicesNow : {TRUE}, fonts : FontSets(e)] : Completes(e, h)}

\* the hosts of the second instance: the same device at a moment with other
\* volatile readings, or listing its extensions and languages in another order
Partners(e, h) ==
    IF e = "abf"
    THEN {[h EXCEPT !.vol = v] : v \in SUBSET VolatileFields}
         \cup {[h EXCEPT !.exts = x, !.langs = l] : x \in Perms(ExtNames), l \in Perms(LangNames)}
    ELSE {h}

\* detectWebRTCFingerprint after its timer has fired
WebRtcDone == [WebRtcIdle EXCEPT !.pc = "closed", !.handler = TRUE, !.timer = "fired"]

\* two instances after their generate() calls
HashInit ==
    /\ engine \in Engines
    /\ host \in HashHosts(engine)
    /\ gen = "fulfilled"
    /\ launched = NumProbes(engine)
    /\ outcome = [k \in 1..NumProbes(engine) |-> Fulfilled(FinalValue(engine, k, host))]
    /\ fingerprint = RecordOn(engine, host)
    /\ returned = fingerprint
    /\ webrtc = IF engine = "abf"
                   /\ LaunchOutcome(engine, ProbeIndex(engine, "detectWebRTCFingerprint"), host).st
                        = "pending"
                THEN WebRtcDone ELSE WebRtcIdle
    /\ speech = SpeechIdle
    /\ inversion = FALSE
    /\ \E h2 \in Partners(engine, host) :
          other = [host |-> h2, fingerprint |-> RecordOn(engine, h2), hashes |-> <<>>]
    /\ hashes = <<>>
    /\ args = <<>>
    /\ ret = <<>>
    /\ FoldIdle
    /\ HeapIdle

\* the stored record after getHash(): AdvancedBrowserFingerprint.getHash sorts
\* the record's own extensions array (bff.js 716); the other two sort copies
\* (Object.keys(...).sort(), fonts.slice(0, 10).sort())
AfterGetHash(e, fp) == IF e = "abf" THEN AbfAfterGetHash(fp) ELSE fp

\* getHash() on this instance; the caller's record is the stored object
GetHash ==
    /\ gen = "fulfilled"
    /\ Len(hashes) < MaxCalls
    /\ hashes' = Append(hashes, GetHashOf(engine, fingerprint))
    /\ fingerprint' = AfterGetHash(engine, fingerprint)
    /\ returned' = fingerprint'
    /\ UNCHANGED <<heapVars, engine, host, gen, launched, outcome, webrtc, speech, inversion, other,
                   foldVars, callVars>>

\* getHash() on the second instance
GetHashOther ==
    /\ gen = "fulfilled"
    /\ Len(other.hashes) < MaxCalls
    /\ other' = [other EXCEPT
                    !.hashes = Append(@, GetHashOf(engine, other.fingerprint)),
                    !.fingerprint = AfterGetHash(engine, @)]
    /\ UNCHANGED <<heapVars, genVars, hashes, foldVars, callVars>>

HashNext == GetHash \/ GetHashOther

SpecHash == HashInit /\ [][HashNext]_vars

----------------------------------------------------------------------------
(* CombinedCSSFingerprint (bff.js 1837-1877).                                *)

\* the fold of h2 + '|' + h1
CombineHashesSwapped(h1, h2) == ToString16(Djb2(h2 \o <<124>> \o h1))

\* the fold of h1 alone
CombineHashesBasicOnly(h1, h2) == ToString16(Djb2(h1))

\* bff.js 1866-1875: the fold of `${basicHash}|${advancedHash}`, in hexadecimal
CombineHashes(h1, h2) == CombinedFoldLoop(h1 \o <<124>> \o h2)

\* getCombinedHash(basic, advanced): each record is given to a new instance of
\* its class, whose getHash() is called (bff.js 1858-1864)
GetCombinedHash(basic, advanced) == CombineHashes(CssGetHash(basic), AdvGetHash(advanced))

\* the object CombinedCSSFingerprint.generate() returns (bff.js 1844-1854);
\* each `hash` is getHash() of a new instance, whose record is {}
CombinedResult(basic, advanced) ==
    Obj([basic |-> Obj([data |-> basic, hash |-> Str(CssGetHash(EmptyObj))]),
         advanced |-> Obj([data |-> advanced, hash |-> Str(AdvGetHash(EmptyObj))]),
         combined |-> Str(GetCombinedHash(basic, advanced))])

\* a host as one engine sees it
EngineHost(cap, fonts) ==
    [cap |-> cap, exts |-> DefaultExts, langs |-> DefaultLangs, vol |-> {},
     voices |-> VoiceNames, voicesNow |-> TRUE, fonts |-> fonts]

\* the hosts of a combined run: one device, on which at most one of the two
\* engines meets a fault
CombinedHosts ==
    {[css |-> EngineHost(c, f), adv |-> EngineHost(AllOk("adv"), f)] :
        c \in HostCaps("css"), f \in SUBSET InstalledFonts}
    \cup {[css |-> EngineHost(AllOk("css"), f), adv |-> EngineHost(c, f)] :
        c \in HostCaps("adv"), f \in SUBSET InstalledFonts}

\* a CombinedCSSFingerprint object (the class has no fields) on some host
CombinedInit ==
    /\ engine = "combined"
    /\ host \in CombinedHosts
    /\ gen = "idle"
    /\ launched = 0
    /\ outcome = <<>>
    /\ fingerprint = EmptyObj
    /\ returned = Undef
    /\ webrtc = WebRtcIdle
    /\ speech = SpeechIdle
    /\ inversion = FALSE
    /\ other = NoInstance
    /\ hashes = <<>>
    /\ args = <<>>
    /\ ret = Undef
    /\ FoldIdle
    /\ HeapIdle

\* the engine behind the k-th promise given to Promise.all
CombinedEngine(k) == IF k = 1 THEN "css" ELSE "adv"

\* the caller calls generate(): both engines are created and their generate()
\* is called; Promise.all is awaited
CombinedCall ==
    /\ gen = "idle"
    /\ gen' = "running"
    /\ launched' = 2
    /\ outcome' = <<Pending, Pending>>
    /\ UNCHANGED <<heapVars, engine, host, fingerprint, returned, webrtc, speech, inversion,
                   foldVars, hashVars, callVars>>

\* the k-th engine's generate() settles: fulfilled with its record, or rejected
EngineSettle(k) ==
    /\ gen = "running"
    /\ outcome[k] = Pending
    /\ LET e == CombinedEngine(k)
       IN  outcome' = [outcome EXCEPT ![k] =
                          IF Completes(e, host[e]) THEN Fulfilled(RecordOn(e, host[e]))
                          ELSE Rejected]
    /\ UNCHANGED <<heapVars, engine, host, gen, launched, fingerprint, returned, webrtc, speech,
                   inversion, foldVars, hashVars, callVars>>

\* await Promise.all([...]) resumes with both records: the result is built
CombinedFulfil ==
    /\ gen = "running"
    /\ outcome[1].st = "fulfilled"
    /\ outcome[2].st = "fulfilled"
    /\ gen' = "fulfilled"
    /\ ret' = CombinedResult(outcome[1].v, outcome[2].v)
    /\ UNCHANGED <<heapVars, engine, host, launched, outcome, fingerprint, returned, webrtc, speech,
                   inversion, foldVars, hashVars, args>>

\* await Promise.all([...]) throws as soon as one engine's generate() is rejected
CombinedReject ==
    /\ gen = "running"
    /\ \E k \in 1..2 : outcome[k] = Rejected
    /\ gen' = "rejected"
    /\ UNCHANGED <<heapVars, engine, host, launched, outcome, fingerprint, returned, webrtc, speech,
                   inversion, foldVars, hashVars, callVars>>

\* the caller calls getCombinedHash on the two records generate() returned
CombinedHashCall ==
    /\ gen = "fulfilled"
    /\ Len(hashes) < MaxCalls
    /\ args' = <<ret.o.basic.o.data, ret.o.advanced.o.data>>
    /\ hashes' = Append(hashes, GetCombinedHash(args'[1], args'[2]))
    /\ UNCHANGED <<heapVars, genVars, other, foldVars, ret>>

CombinedNext ==
    \/ CombinedCall
    \/ \E k \in 1..2 : EngineSettle(k)
    \/ CombinedFulfil
    \/ CombinedReject
    \/ CombinedHashCall

SpecCombined == CombinedInit /\ [][CombinedNext]_vars

----------------------------------------------------------------------------
(* The join-and-fold step of getCombinedHash (bff.js 1866-1875) as a        *)
(* function of the two per-engine hash strings.                             *)

\* per-engine hash strings: 79493e64, ae574018, 79493e65, abcdf553, abcdf554,
\* c9768f63, eebcba7e, 2dd0c623, 87fe82b0, 1505
HashStrings ==
    {<<55, 57, 52, 57, 51, 101, 54, 52>>,
     <<97, 101, 53, 55, 52, 48, 49, 56>>,
     <<55, 57, 52, 57, 51, 101, 54, 53>>,
     <<97, 98, 99, 100, 102, 53, 53, 51>>,
     <<97, 98, 99, 100, 102, 53, 53, 52>>,
     <<99, 57, 55, 54, 56, 102, 54, 51>>,
     <<101, 101, 98, 99, 98, 97, 55, 101>>,
     <<50, 100, 100, 48, 99, 54, 50, 51>>,
     <<56, 55, 102, 101, 56, 50, 98, 48>>,
     <<49, 53, 48, 53>>}

\* two pairs of per-engine hashes, (h1, h2) and later (g1, g2), are about to be
\* combined
CombineInit ==
    /\ engine = "combine"
    /\ args \in [h1 : HashStrings, h2 : HashStrings, g1 : HashStrings, g2 : HashStrings]
    /\ ret = <<>>
    /\ host = EngineHost(<<>>, {})
    /\ gen = "idle"
    /\ launched = 0
    /\ outcome = <<>>
    /\ fingerprint = EmptyObj
    /\ returned = Undef
    /\ webrtc = WebRtcIdle
    /\ speech = SpeechIdle
    /\ inversion = FALSE
    /\ other = NoInstance
    /\ hashes = <<>>
    /\ FoldIdle
    /\ HeapIdle

\* both pairs are joined and folded
Combine ==
    /\ engine = "combine"
    /\ ret = <<>>
    /\ ret' = <<CombineHashes(args.h1, args.h2), CombineHashes(args.g1, args.g2)>>
    /\ UNCHANGED <<heapVars, genVars, foldVars, hashVars, args>>

SpecCombine == CombineInit /\ [][Combine]_vars

----------------------------------------------------------------------------
(* getHash() of CSSFingerprint and AdvancedCSSFingerprint on records the     *)
(* caller assigns, as getCombinedHash does (bff.js 1859, 1863): the same     *)
(* content with the fonts list or the map fields in another order.           *)

\* how many of the fonts AdvancedCSSFingerprint tests a host has at most
MaxFonts == 12

\* the first n fonts of the list AdvancedCSSFingerprint tests
FirstFonts(n) == {AdvCommonFonts[j] : j \in 1..n}

\* the hosts whose records are reordered
OrderHosts(e) ==
    IF e = "css" THEN {EngineHost(AllOk(e), f) : f \in SUBSET InstalledFonts}
    ELSE {EngineHost(AllOk(e), FirstFonts(n)) : n \in 0..MaxFonts}

\* the fields of a record whose order varies
OrderFields(e) ==
    IF e = "css"
    THEN {"cssProperties", "mediaQueries", "cssFilters", "cssBlending", "fontMetrics",
          "emojiRendering"}
    ELSE {"fonts"}

Orders == {"same", "reversed", "rotated", "endsSwapped"}

\* the elements of s in another order
Reordered(s, order) ==
    LET n == Len(s)
    IN  CASE order = "reversed" -> [j \in 1..n |-> s[n + 1 - j]]
          [] order = "rotated" -> [j \in 1..n |-> s[(j % n) + 1]]
          [] order = "endsSwapped" ->
                [j \in 1..n |-> IF j = 1 THEN s[n] ELSE IF j = n THEN s[1] ELSE s[j]]
          [] OTHER -> s

\* an array with its elements, or a map with its keys, in another order
ReorderedValue(v, order) ==
    IF v.t = "arr" THEN Arr(Reordered(v.a, order))
    ELSE IF v.t = "map" THEN Map(Reordered(v.m, order))
    ELSE v

\* the record fp with the list and map fields of OrderFields(e) in another order
ReorderedRecord(e, fp, order) ==
    Obj([f \in DOMAIN fp.o |->
            IF f \in OrderFields(e) THEN ReorderedValue(fp.o[f], order) ELSE fp.o[f]])

\* two instances of one class: the first holds the record generate() builds
\* on the host, the second the same record in another order
OrderInit ==
    /\ engine \in {"css", "adv"}
    /\ host \in OrderHosts(engine)
    /\ gen = "fulfilled"
    /\ launched = NumProbes(engine)
    /\ outcome = [k \in 1..NumProbes(engine) |-> Fulfilled(FinalValue(engine, k, host))]
    /\ fingerprint = RecordOn(engine, host)
    /\ returned = fingerprint
    /\ webrtc = WebRtcIdle
    /\ speech = SpeechIdle
    /\ inversion = FALSE
    /\ \E order \in Orders :
          other = [host |-> host,
                   fingerprint |-> ReorderedRecord(engine, RecordOn(engine, host), order),
                   hashes |-> <<>>]
    /\ hashes = <<>>
    /\ args = <<>>
    /\ ret = <<>>
    /\ FoldIdle
    /\ HeapIdle

SpecOrder == OrderInit /\ [][HashNext]_vars

----------------------------------------------------------------------------
(* getCompact / getCompactFingerprint (bff.js 788-800, 1359-1371, 1822-1834) *)
(* and sequential generate() calls on one instance.                          *)

\* getHash() of a new instance of the class
CompactHashOfNewInstance(e, fp) == GetHashOf(e, EmptyObj)

\* `hash: this.getHash()` (bff.js 798, 1369, 1832)
CompactHash(e, fp) == GetHashOf(e, fp)

\* `${a?.width}x${a?.height}`
WidthXHeight(v) == Str(ToStr(Prop(v, "width")) \o LetterX \o ToStr(Prop(v, "height")))

\* AdvancedBrowserFingerprint.getCompact()
AbfGetCompact(fp) ==
    Obj([webglRenderer |-> Prop(fp, "webglRenderer"),
         webglVendor |-> Prop(fp, "webglVendor"),
         canvasHash |-> Prop(Prop(fp, "canvas"), "hash"),
         audioSum |-> Prop(Prop(fp, "audio"), "audioSum"),
         hardwareConcurrency |-> Prop(fp, "hardwareConcurrency"),
         deviceMemory |-> Prop(fp, "deviceMemory"),
         timezone |-> Prop(Prop(fp, "timezone"), "timezone"),
         screenResolution |-> WidthXHeight(Prop(fp, "screen")),
         hash |-> Str(CompactHash("abf", fp))])

\* CSSFingerprint.getCompactFingerprint()
CssGetCompactFingerprint(fp) ==
    LET mq == Prop(fp, "mediaQueries")
    IN  Obj([scrollbarWidth |-> OrElse(Prop(Prop(fp, "scrollbar"), "width"), Num(0)),
             scrollbarHeight |-> OrElse(Prop(Prop(fp, "scrollbar"), "height"), Num(0)),
             fontCount |-> OrElse(Length(Prop(fp, "fontList")), Num(0)),
             cssGridSupported |-> OrElse(Prop(Prop(fp, "cssGrid"), "supported"), Bool(FALSE)),
             cssVariablesSupported |->
                 OrElse(Prop(Prop(fp, "cssVariables"), "supported"), Bool(FALSE)),
             prefersColorScheme |-> OrElse(Lookup(mq, CssMediaQueries[1]), Bool(FALSE)),
             hoverSupported |-> OrElse(Lookup(mq, CssMediaQueries[7]), Bool(FALSE)),
             pointerFine |-> OrElse(Lookup(mq, CssMediaQueries[8]), Bool(FALSE)),
             hash |-> Str(CompactHash("css", fp))])

\* AdvancedCSSFingerprint.getCompact()
AdvGetCompact(fp) ==
    Obj([fontCount |-> OrElse(Length(Prop(fp, "fonts")), Num(0)),
         colorScheme |-> Prop(fp, "colorScheme"),
         reducedMotion |-> Prop(fp, "prefersReducedMotion"),
         pointer |-> Prop(fp, "pointerType"),
         hover |-> Prop(fp, "hoverCapability"),
         resolution |-> WidthXHeight(Prop(fp, "screenResolution")),
         dpr |-> Prop(fp, "devicePixelRatio"),
         hash |-> Str(CompactHash("adv", fp))])

GetCompactOf(e, fp) ==
    IF e = "abf" THEN AbfGetCompact(fp)
    ELSE IF e = "css" THEN CssGetCompactFingerprint(fp)
    ELSE AdvGetCompact(fp)

\* how many generate() calls one instance receives at most
MaxGenerates == 2

\* a host on which generate() is rejected: a host call throws in the executor
\* of detectWebRTCFingerprint, or in the first probe of the two CSS classes
FailingCap(e) ==
    IF e = "abf"
    THEN [AllOk(e) EXCEPT ![ProbeIndex(e, "detectWebRTCFingerprint")] = "throwsInExecutor"]
    ELSE [AllOk(e) EXCEPT ![1] = "throws"]

\* the states of the host at the successive generate() calls
SeqHosts(e) ==
    IF e = "abf"
    THEN {EngineHost(c, InstalledFonts) : c \in {AllOk(e), NullMissing(e), FailingCap(e)}}
    ELSE {EngineHost(AllOk(e), f) : f \in {{}, InstalledFonts}}
         \cup {EngineHost(FailingCap(e), InstalledFonts)}

\* a new instance (bff.js 8-10, 822-824, 1392-1396); args will hold the host
\* of the most recently completed generate(), ret the getCompact() results
SeqInit ==
    /\ engine \in Engines
    /\ host \in SeqHosts(engine)
    /\ gen = "idle"
    /\ launched = 0
    /\ outcome = <<>>
    /\ fingerprint = EmptyObj
    /\ returned = Undef
    /\ webrtc = WebRtcIdle
    /\ speech = SpeechIdle
    /\ inversion = FALSE
    /\ other = NoInstance
    /\ hashes = <<>>
    /\ args = <<>>
    /\ ret = <<>>
    /\ FoldIdle
    /\ HeapIdle

\* the stored object is filled with the new results
RecordFilledInPlace(old, new) == new

\* `this.fingerprint = { ... }` / `this.results = { ... }` (bff.js 49, 830,
\* 1426) assigns a new object: the object stored before, which the caller
\* may still hold, keeps its content
ReplacedRecord(old, new) == old

\* generate() is called with the host in state h and completes: the record is
\* stored and returned; the caller keeps the object an earlier call returned
SeqGenerateFulfil(h) ==
    /\ launched < MaxGenerates
    /\ Completes(engine, h)
    /\ launched' = launched + 1
    /\ host' = h
    /\ gen' = "fulfilled"
    /\ fingerprint' = RecordOn(engine, h)
    /\ returned' = fingerprint'
    /\ args' = <<h>>
    /\ held' = IF returned = Undef THEN held
               ELSE Append(held, ReplacedRecord(returned, RecordOn(engine, h)))
    /\ UNCHANGED <<dom, calls, engine, outcome, webrtc, speech, inversion, foldVars, hashVars,
                   ret>>

\* the stored record is emptied before the probes run
RecordResetByFailedCall(old) == EmptyObj

\* the stored record after a generate() call that failed: the throw of
\* `await Promise.all(...)` (bff.js 16, 1402) or of a probe called inside the
\* object literal (bff.js 830-847) leaves the function before the assignment
\* to this.fingerprint / this.results is executed
RecordAfterFailedCall(old) == old

\* generate() is called with the host in state h and is rejected: the
\* assignment of the record is never reached
SeqGenerateReject(h) ==
    /\ launched < MaxGenerates
    /\ ~Completes(engine, h)
    /\ launched' = launched + 1
    /\ host' = h
    /\ gen' = "rejected"
    /\ fingerprint' = RecordAfterFailedCall(fingerprint)
    /\ UNCHANGED <<heapVars, engine, outcome, returned, webrtc, speech, inversion,
                   foldVars, hashVars, callVars>>

\* getHash() between two generate() calls
SeqGetHash ==
    /\ Len(hashes) + Len(ret) < MaxCalls
    /\ hashes' = Append(hashes, GetHashOf(engine, fingerprint))
    /\ fingerprint' = AfterGetHash(engine, fingerprint)
    /\ returned' = IF returned = Undef THEN Undef ELSE fingerprint'
    /\ UNCHANGED <<heapVars, engine, host, gen, launched, outcome, webrtc, speech, inversion, other,
                   foldVars, callVars>>

\* getCompact() / getCompactFingerprint() between two generate() calls; its
\* getHash() call sorts the record of AdvancedBrowserFingerprint as above
SeqGetCompact ==
    /\ Len(hashes) + Len(ret) < MaxCalls
    /\ ret' = Append(ret, GetCompactOf(engine, fingerprint))
    /\ fingerprint' = AfterGetHash(engine, fingerprint)
    /\ returned' = IF returned = Undef THEN Undef ELSE fingerprint'
    /\ UNCHANGED <<heapVars, engine, host, gen, launched, outcome, webrtc, speech, inversion,
                   foldVars, hashVars, args>>

SeqNext ==
    \/ \E h \in SeqHosts(engine) : SeqGenerateFulfil(h)
    \/ \E h \in SeqHosts(engine) : SeqGenerateReject(h)
    \/ SeqGetHash
    \/ SeqGetCompact

SpecSeq == SeqInit /\ [][SeqNext]_vars

----------------------------------------------------------------------------
(* Overlapping generate() calls on one instance.  A call runs its probes and *)
(* suspends at its await (bff.js 16, 841, 1402); when it is resumed it       *)
(* assigns the record (bff.js 49, 830, 1426) and returns.                    *)

\* how many generate() calls overlap at most
MaxOverlap == 2

\* how many getHash() calls the caller makes between them
MaxOverlapHashes == 1

\* an invocation: st is "idle" (not called yet), "running" (suspended at its
\* await), "fulfilled" or "rejected"; host is the host its probes measured;
\* done says as which of the settled invocations it settled (0: not yet)
IdleCall == [st |-> "idle", host |-> <<>>, done |-> 0]

\* how many invocations have settled
Settled(c) == Cardinality({j \in 1..Len(c) : c[j].done > 0})

\* only the first completed call stores its record
StoredByFirstCallOnly(old, new) == IF old = EmptyObj THEN new ELSE old

\* `this.fingerprint = { ... }`: the record built from this invocation's
\* results replaces whatever is stored
StoredByResume(old, new) == new

OverlapInit ==
    /\ engine \in Engines
    /\ host \in SeqHosts(engine)
    /\ gen = "idle"
    /\ launched = 0
    /\ outcome = <<>>
    /\ fingerprint = EmptyObj
    /\ returned = Undef
    /\ webrtc = WebRtcIdle
    /\ speech = SpeechIdle
    /\ inversion = FALSE
    /\ other = NoInstance
    /\ hashes = <<>>
    /\ args = <<>>
    /\ ret = <<>>
    /\ dom = {}
    /\ held = <<>>
    /\ calls = [j \in 1..MaxOverlap |-> IdleCall]
    /\ FoldIdle

\* the caller calls generate() while the earlier invocations may still be
\* suspended; the probes of the call measure the host in state h
OverlapCall(j, h) ==
    /\ calls[j].st = "idle"
    /\ \A k \in 1..(j - 1) : calls[k].st # "idle"
    /\ calls' = [calls EXCEPT ![j] = [st |-> "running", host |-> h, done |-> 0]]
    /\ host' = h
    /\ gen' = "running"
    /\ UNCHANGED <<engine, launched, outcome, fingerprint, returned, webrtc, speech,
                   inversion, foldVars, hashVars, callVars, dom, held>>

\* invocation j is resumed with its results: it stores and returns its record
OverlapFulfil(j) ==
    /\ calls[j].st = "running"
    /\ Completes(engine, calls[j].host)
    /\ calls' = [calls EXCEPT ![j].st = "fulfilled", ![j].done = Settled(calls) + 1]
    /\ fingerprint' = StoredByResume(fingerprint, RecordOn(engine, calls[j].host))
    /\ returned' = fingerprint'
    /\ gen' = IF \E k \in 1..Len(calls) \ {j} : calls[k].st = "running"
              THEN "running" ELSE "fulfilled"
    /\ UNCHANGED <<engine, host, launched, outcome, webrtc, speech, inversion, foldVars,
                   hashVars, callVars, dom, held>>

\* invocation j is resumed by the throw of its await, or a probe called after
\* the await throws: nothing is stored
OverlapReject(j) ==
    /\ calls[j].st = "running"
    /\ ~Completes(engine, calls[j].host)
    /\ calls' = [calls EXCEPT ![j].st = "rejected", ![j].done = Settled(calls) + 1]
    /\ gen' = IF \E k \in 1..Len(calls) \ {j} : calls[k].st = "running"
              THEN "running" ELSE "rejected"
    /\ UNCHANGED <<engine, host, launched, outcome, fingerprint, returned, webrtc, speech,
                   inversion, foldVars, hashVars, callVars, dom, held>>

\* getHash() at any moment, also while invocations are suspended
OverlapGetHash ==
    /\ Len(hashes) < MaxOverlapHashes
    /\ hashes' = Append(hashes, GetHashOf(engine, fingerprint))
    /\ fingerprint' = AfterGetHash(engine, fingerprint)
    /\ returned' = IF returned = Undef THEN Undef ELSE fingerprint'
    /\ UNCHANGED <<engine, host, gen, launched, outcome, webrtc, speech, inversion, other,
                   foldVars, callVars, heapVars>>

OverlapNext ==
    \/ \E j \in 1..MaxOverlap, h \in SeqHosts(engine) : OverlapCall(j, h)
    \/ \E j \in 1..MaxOverlap : OverlapFulfil(j)
    \/ \E j \in 1..MaxOverlap : OverlapReject(j)
    \/ OverlapGetHash

SpecOverlap == OverlapInit /\ [][OverlapNext]_vars

----------------------------------------------------------------------------
(* getHash() as a partial function: the member accesses and method calls of *)
(* the three getHash() bodies that have no ?. in front of them throw a      *)
(* TypeError when their receiver is null or undefined or lacks the method.  *)
(* this.fingerprint and this.results are objects from the constructors on   *)
(* (bff.js 9, 823, 1393), so reading a property of them never throws.       *)

\* the result of a call that threw
Thrown == [t |-> "thrown"]

\* null or undefined: reading a property of it throws
IsNullish(v) == v.t \in {"null", "undefined"}

\* sort, join and slice().sort() are there on arrays only
HasArrayMethods(v) == v.t = "arr"

\* calling sort() on the extensions without the `|| []`
AbfSortReceiverUnguarded(fp) == Prop(Prop(fp, "webgl"), "extensions")

\* bff.js 716: the receiver of .sort(), (this.fingerprint.webgl?.extensions || [])
AbfSortReceiver(fp) == OrElse(Prop(Prop(fp, "webgl"), "extensions"), Arr(<<>>))

\* AdvancedBrowserFingerprint.getHash (bff.js 708-783): .sort() of 716,
\* ?.toFixed(2) of 719 (called when audioSum is neither null nor undefined),
\* .join(',') of 740; every other access is ?. or a property of a truthy value
AbfGetHashThrows(fp) ==
    LET audioSum == Prop(Prop(fp, "audio"), "audioSum")
    IN  \/ ~HasArrayMethods(AbfSortReceiver(fp))
        \/ ~IsNullish(audioSum) /\ audioSum.t # "num"
        \/ ~HasArrayMethods(OrElse(Prop(Prop(fp, "languages"), "languages"), Arr(<<>>)))

\* CSSFingerprint.getHash (bff.js 1294-1354): fontMetrics[key].width.toFixed(1)
\* of 1330, for every key of fontMetrics
CssGetHashThrows(fp) ==
    LET fm == OrElse(Prop(fp, "fontMetrics"), Map(<<>>))
        keys == Keys(fm).a
    IN  \E j \in 1..Len(keys) :
            LET entry == Lookup(fm, keys[j].s)
            IN  IsNullish(entry) \/ Prop(entry, "width").t # "num"

\* AdvancedCSSFingerprint.getHash (bff.js 1784-1817): .slice(0, 10).sort() of 1804
AdvGetHashThrows(fp) == ~HasArrayMethods(OrElse(Prop(fp, "fonts"), Arr(<<>>)))

GetHashThrows(e, fp) ==
    IF e = "abf" THEN AbfGetHashThrows(fp)
    ELSE IF e = "css" THEN CssGetHashThrows(fp)
    ELSE AdvGetHashThrows(fp)

\* what a getHash() call gives its caller
GetHashResult(e, fp) == IF GetHashThrows(e, fp) THEN Thrown ELSE Str(GetHashOf(e, fp))

\* the record with the fields of F holding null
WithNull(rec, F) == Obj([f \in DOMAIN rec.o |-> IF f \in F THEN Null ELSE rec.o[f]])

\* which fields hold null: none, one, or all (each feature of getHash() reads
\* one field, so a throw shows with one field null or with none)
NullChoices(rec) == {{}} \cup {{f} : f \in DOMAIN rec.o} \cup {DOMAIN rec.o}

\* the records an instance holds: {} of the constructor, and the records whose
\* fields hold null or what the probe returns on a host
HoldableRecords(e) ==
    {EmptyObj}
    \cup UNION {{WithNull(RecordOn(e, h), F) : F \in NullChoices(RecordOn(e, h))} :
                    h \in {s \in SeqHosts(e) : Completes(e, s)}}

TotalInit ==
    /\ engine \in Engines
    /\ host = EngineHost(AllOk(engine), InstalledFonts)
    /\ fingerprint \in HoldableRecords(engine)
    /\ gen = "idle"
    /\ launched = 0
    /\ outcome = <<>>
    /\ returned = Undef
    /\ webrtc = WebRtcIdle
    /\ speech = SpeechIdle
    /\ inversion = FALSE
    /\ other = NoInstance
    /\ hashes = <<>>
    /\ args = <<>>
    /\ ret = <<>>
    /\ FoldIdle
    /\ HeapIdle

\* the caller calls getHash(); ret collects what the calls gave
TotalGetHash ==
    /\ Len(ret) < MaxCalls
    /\ ret' = Append(ret, GetHashResult(engine, fingerprint))
    /\ fingerprint' = IF GetHashThrows(engine, fingerprint) THEN fingerprint
                      ELSE AfterGetHash(engine, fingerprint)
    /\ UNCHANGED <<heapVars, engine, host, gen, launched, outcome, returned, webrtc, speech,
                   inversion, foldVars, hashVars, args>>

TotalNext == TotalGetHash

SpecTotal == TotalInit /\ [][TotalNext]_vars

----------------------------------------------------------------------------
(* Claims.                                                                  *)

\* the host whose only fault is that the body of probe k throws
OnlyThrowsAt(e, k) == [AllOk(e) EXCEPT ![k] = "throws"]

\* C1: in AdvancedBrowserFingerprint.generate(), a synchronous throw inside
\* any single one of the 30 probes does not make generate() fail, and the
\* record it yields has all 30 fields: null in the failing probe's field, the
\* probe's own result in every other one.
C1_ThrowIsIsolated ==
    \A k \in 1..Len(AbfProbes) :
        (engine = "abf" /\ host.cap = OnlyThrowsAt("abf", k)) =>
            /\ gen # "rejected"
            /\ gen = "fulfilled" =>
                  /\ DOMAIN returned.o = Fields("abf")
                  /\ returned.o[AbfProbes[k].field] = Null
                  /\ \A j \in 1..Len(AbfProbes) :
                        j # k => returned.o[AbfProbes[j].field] = outcome[j].v

\* C2: generate() of every engine never rejects to its caller, whichever
\* probes fail and whichever host capabilities are missing.
C2_GenerateNeverRejects == gen # "rejected"

\* C3: after every iteration the accumulator equals the reference value
\* (33*h + c) mod 2^32 folded from 5381 over the characters consumed so far,
\* however the signed 32-bit shift overflowed or went negative.
C3_FoldMatchesReference ==
    foldPc \in {"loop", "done"} => hash = RefFold(HashSeed, SubSeq(str, 1, i))

\* C3 witness: a finished fold in which the shift went negative and 33*h+c
\* exceeded 32 bits
C3_Witness == foldPc = "done" /\ shiftNeg /\ wrapped /\ Len(str) = MaxLen

\* the two instances were given equal records by their generate() calls
EqualRecords == RecordOn(engine, host) = RecordOn(engine, other.host)

\* C4: all getHash() calls in a row on one instance return the same string,
\* and so do the calls on two instances that hold equal records.
C4_HashIsDeterministic ==
    /\ \A j, k \in 1..Len(hashes) : hashes[j] = hashes[k]
    /\ \A j, k \in 1..Len(other.hashes) : other.hashes[j] = other.hashes[k]
    /\ EqualRecords =>
          \A j \in 1..Len(hashes), k \in 1..Len(other.hashes) : hashes[j] = other.hashes[k]

\* C4 witness: getHash() was called twice on an instance whose first call
\* reordered the extensions of the record, and once on a second instance
\* with an equal record
C4_Witness ==
    /\ Len(hashes) = 2
    /\ Len(other.hashes) >= 1
    /\ EqualRecords
    /\ fingerprint # RecordOn(engine, host)

\* the number of keys of a record, by class
KeyCount(e) == IF e = "abf" THEN 30 ELSE IF e = "css" THEN 15 ELSE 21

\* C5: every record generate() returns has exactly the key set of its class
\* (30, 15, 21 keys), whichever probes returned null.
C5_FixedKeySet ==
    gen = "fulfilled" =>
        /\ returned.t = "obj"
        /\ DOMAIN returned.o = Fields(engine)
        /\ Cardinality(DOMAIN returned.o) = KeyCount(engine)

\* C5 witness: a returned record of AdvancedBrowserFingerprint in which
\* several probes returned null
C5_Witness ==
    /\ gen = "fulfilled"
    /\ engine = "abf"
    /\ returned.o["webgl"] = Null
    /\ returned.o["battery"] = Null
    /\ returned.o["indexedDB"] = Null

\* C6: whatever the order in which the probes of one generate() call settle,
\* the record has the key set of its class and every field holds the result
\* of its own probe (so the stable features, read from the fields in a fixed
\* order, come out in the same order).
C6_FieldsHoldOwnResult ==
    gen = "fulfilled" =>
        /\ DOMAIN returned.o = Fields(engine)
        /\ \A k \in 1..NumProbes(engine) : returned.o[Probes(engine)[k].field] = outcome[k].v

\* C6 witness: a completed generate() in which a probe settled before a probe
\* called earlier, on a host where the two WebGL strings differ
C6_Witness ==
    /\ engine = "abf"
    /\ gen = "fulfilled"
    /\ inversion
    /\ returned.o["webglRenderer"] # returned.o["webglVendor"]

\* the 1000 ms timers of both timed probes have fired
BudgetElapsed == webrtc.timer = "fired" /\ speech.timer = "fired"

\* C7: once the timeout budget has elapsed, every probe that suspended on the
\* host has yielded a result, also when the host never resolves what the
\* probe waits for (so that generate() can complete).
C7_NoProbePendingAfterBudget ==
    (engine = "abf" /\ HostTurn /\ BudgetElapsed) =>
        \A k \in 1..Len(AbfProbes) : outcome[k].st # "pending"

\* the indices of the timed probes
WebRtcIx == ProbeIndex("abf", "detectWebRTCFingerprint")

SpeechIx == ProbeIndex("abf", "detectSpeechSynthesis")

\* C8: when the timer of a timed probe fires while the probe is pending, the
\* probe is fulfilled, by { localIPs: the addresses collected so far } for
\* detectWebRTCFingerprint and by the empty list for detectSpeechSynthesis.
C8_TimeoutResolvesPartial ==
    [][ /\ (webrtc.timer = "pending" /\ webrtc'.timer = "fired"
              /\ outcome[WebRtcIx].st = "pending") =>
            outcome'[WebRtcIx] =
                [st |-> "fulfilled",
                 v |-> [t |-> "obj",
                        o |-> [localIPs |->
                                 [t |-> "arr",
                                  a |-> [j \in 1..Len(webrtc.ips) |->
                                           [t |-> "str", s |-> webrtc.ips[j]]]]]]]
        /\ (speech.timer = "pending" /\ speech'.timer = "fired"
              /\ outcome[SpeechIx].st = "pending") =>
            outcome'[SpeechIx] = [st |-> "fulfilled", v |-> [t |-> "arr", a |-> <<>>]]
      ]_vars

\* C8 witness: both timers fired before the terminating host events, the
\* WebRTC one after an address had been collected
C8_Witness ==
    /\ engine = "abf"
    /\ webrtc.timer = "fired" /\ ~webrtc.ended /\ Len(webrtc.ips) > 0
    /\ outcome[WebRtcIx].st = "fulfilled"
    /\ speech.timer = "fired" /\ ~speech.changed
    /\ outcome[SpeechIx].st = "fulfilled"

\* the records the two instances were given agree on every field outside S
AgreeOutside(S) ==
    \A f \in Fields(engine) \ S : RecordOn(engine, host).o[f] = RecordOn(engine, other.host).o[f]

\* C9: two AdvancedBrowserFingerprint records that differ only in the
\* battery, network, performance or storageQuota fields have the same hash.
C9_VolatileFieldsIgnored ==
    (engine = "abf" /\ AgreeOutside(VolatileFields)) =>
        \A j \in 1..Len(hashes), k \in 1..Len(other.hashes) : hashes[j] = other.hashes[k]

\* C9 witness: both instances were hashed and their records differ in each of
\* the four volatile fields and in nothing else
C9_Witness ==
    /\ engine = "abf"
    /\ AgreeOutside(VolatileFields)
    /\ \A f \in VolatileFields :
          RecordOn(engine, host).o[f] # RecordOn(engine, other.host).o[f]
    /\ hashes # <<>>
    /\ other.hashes # <<>>

\* two values are the same array up to the order of the elements
SameUpToOrder(x, y) == x.t = "arr" /\ y.t = "arr" /\ SortArr(x.a) = SortArr(y.a)

\* the records the two instances were given differ at most in the order of
\* webgl.extensions and of languages.languages
DifferOnlyInListOrder ==
    LET a == RecordOn(engine, host)
        b == RecordOn(engine, other.host)
    IN  /\ AgreeOutside({"webgl", "languages"})
        /\ \/ a.o["webgl"] = b.o["webgl"]
           \/ /\ a.o["webgl"].t = "obj" /\ b.o["webgl"].t = "obj"
              /\ \A p \in DOMAIN a.o["webgl"].o \ {"extensions"} :
                    a.o["webgl"].o[p] = b.o["webgl"].o[p]
              /\ SameUpToOrder(a.o["webgl"].o["extensions"], b.o["webgl"].o["extensions"])
        /\ a.o["languages"].o["language"] = b.o["languages"].o["language"]
        /\ SameUpToOrder(a.o["languages"].o["languages"], b.o["languages"].o["languages"])

\* C10: two AdvancedBrowserFingerprint records that differ only in the
\* iteration order of a list that enters the canonical string have the same
\* hash.
C10_ListOrderIgnored ==
    (engine = "abf" /\ DifferOnlyInListOrder) =>
        \A j \in 1..Len(hashes), k \in 1..Len(other.hashes) : hashes[j] = other.hashes[k]

\* the characters 0-9 and a-f
HexChars == (48..57) \cup (97..102)

\* the value of one hexadecimal character
HexCharValue(c) == IF c <= 57 THEN c - 48 ELSE c - 87

RECURSIVE HexValue(_)
\* the number a string of at most four hexadecimal characters denotes
HexValue(s) ==
    IF s = <<>> THEN 0 ELSE 16 * HexValue(SubSeq(s, 1, Len(s) - 1)) + HexCharValue(s[Len(s)])

\* the number a string of at most eight hexadecimal characters denotes, as
\* <<high, low>> 16-bit limbs
ParseHex(s) ==
    IF Len(s) <= 4 THEN <<0, HexValue(s)>>
    ELSE <<HexValue(SubSeq(s, 1, Len(s) - 4)), HexValue(SubSeq(s, Len(s) - 3, Len(s)))>>

\* C15: after every character the accumulator is an integer in [0, 2^32),
\* and the returned string is the final value in lowercase hexadecimal: 1 to
\* 8 characters from 0-9a-f, no leading '0' unless the value is 0.
C15_AccumulatorRangeAndHexFormat ==
    /\ foldPc \in {"loop", "done"} =>
          /\ hash[1] \in 0..(W16 - 1)
          /\ hash[2] \in 0..(W16 - 1)
    /\ foldPc = "done" =>
          /\ Len(ret) \in 1..8
          /\ \A j \in 1..Len(ret) : ret[j] \in HexChars
          /\ ret[1] = 48 => hash = <<0, 0>>
          /\ ParseHex(ret) = hash

\* C15 witness: a fold over a non-empty string whose result needs fewer than
\* eight digits
C15_Witness == foldPc = "done" /\ Len(str) > 0 /\ Len(ret) < 8

\* C16: the fold of "a:1|b:2" is 3113758523 = 47512 * 2^16 + 12091, returned
\* as "b9982f3b"; the fold of the empty string is 5381, returned as "1505".
C16_GoldenValues ==
    foldPc = "done" =>
        /\ str = <<97, 58, 49, 124, 98, 58, 50>> =>
              /\ hash = <<47512, 12091>>
              /\ ret = <<98, 57, 57, 56, 50, 102, 51, 98>>
        /\ str = <<>> =>
              /\ hash = <<0, 5381>>
              /\ ret = <<49, 53, 48, 53>>

\* C16 witness: the fold of "a:1|b:2" has finished
C16_Witness == foldPc = "done" /\ str = <<97, 58, 49, 124, 98, 58, 50>> /\ Len(ret) = 8

\* C17: on one host, the hash after generate() is the same for every
\* interleaving of host events and timers: it is the hash of the run in which
\* every terminating event (ICE end-of-candidates, voiceschanged) comes before
\* its probe's timeout.
C17_HashSameForEveryInterleaving ==
    (engine = "abf" /\ gen = "fulfilled") =>
        AbfGetHash(fingerprint) = AbfGetHash(RecordOn("abf", host))

\* C18: an exception raised inside detectWebRTCFingerprint or
\* detectSpeechSynthesis, also inside the Promise executor, makes the probe
\* resolve to null: the probe never rejects and generate() does not fail.
C18_TimedProbesCatchEverything ==
    \A k \in {WebRtcIx, SpeechIx} :
        (engine = "abf" /\ launched >= k
           /\ host.cap \in {[AllOk("abf") EXCEPT ![k] = c] : c \in {"throws", "throwsInExecutor"}}) =>
            /\ outcome[k] = [st |-> "fulfilled", v |-> [t |-> "null"]]
            /\ gen # "rejected"


\* C12: every getCombinedHash(basic, advanced) call returns the djb2 fold,
\* written in hexadecimal, of CSSFingerprint's hash of basic, then '|', then
\* AdvancedCSSFingerprint's hash of advanced, in that order.
C12_CombinedHashIsFoldOfJoin ==
    (engine = "combined" /\ hashes # <<>>) =>
        \A j \in 1..Len(hashes) :
            hashes[j] = ToString16(RefFold(HashSeed,
                            CssGetHash(args[1]) \o <<124>> \o AdvGetHash(args[2])))

\* C12 witness: getCombinedHash has returned for two records whose hashes
\* differ, so that the order of the join matters
C12_Witness ==
    /\ engine = "combined"
    /\ Len(hashes) = 1
    /\ host.css.fonts = InstalledFonts
    /\ CssGetHash(args[1]) # AdvGetHash(args[2])


\* C11: in the object CombinedCSSFingerprint.generate() returns, basic.hash is
\* CSSFingerprint's hash of basic.data, advanced.hash is
\* AdvancedCSSFingerprint's hash of advanced.data, and combined is the fold of
\* basic.hash + '|' + advanced.hash.
C11_ReportedHashesMatchData ==
    (engine = "combined" /\ gen = "fulfilled") =>
        /\ ret.o.basic.o.hash = Str(CssGetHash(ret.o.basic.o.data))
        /\ ret.o.advanced.o.hash = Str(AdvGetHash(ret.o.advanced.o.data))
        /\ ret.o.combined = Str(CombineHashes(ret.o.basic.o.hash.s, ret.o.advanced.o.hash.s))


\* two strings of the same length that differ in exactly one character
DiffersInOnePlace(s, t) ==
    /\ Len(s) = Len(t)
    /\ Cardinality({j \in 1..Len(s) : s[j] # t[j]}) = 1

\* C13 as stated: the composite hash of (g1, g2) differs from the composite
\* hash of (h1, h2) if and only if g1 differs from h1 or g2 differs from h2.
C13_CompositeChangesIffHashChanges ==
    (engine = "combine" /\ ret # <<>>) =>
        (ret[1] = ret[2] <=> (args.h1 = args.g1 /\ args.h2 = args.g2))

\* C13, amended: equal per-engine hashes give an equal composite hash, and a
\* change of exactly one character of one engine's hash, whichever engine it
\* is, gives a different composite hash.
C13_EqualGivesEqualOneCharGivesDifferent ==
    (engine = "combine" /\ ret # <<>>) =>
        /\ (args.h1 = args.g1 /\ args.h2 = args.g2) => ret[1] = ret[2]
        /\ (args.h2 = args.g2 /\ DiffersInOnePlace(args.h1, args.g1)) => ret[1] # ret[2]
        /\ (args.h1 = args.g1 /\ DiffersInOnePlace(args.h2, args.g2)) => ret[1] # ret[2]

\* C13 witness: only the second engine's hash changed, by one character, and
\* the composite hash changed
C13_Witness ==
    /\ engine = "combine"
    /\ ret # <<>>
    /\ args.h1 = args.g1
    /\ DiffersInOnePlace(args.h2, args.g2)
    /\ ret[1] # ret[2]


\* the values hold the same elements (arrays) or the same entries (maps)
SameContent(x, y) ==
    \/ x = y
    \/ x.t = "arr" /\ y.t = "arr" /\ SortArr(x.a) = SortArr(y.a)
    \/ /\ x.t = "map" /\ y.t = "map" /\ Len(x.m) = Len(y.m)
       /\ {x.m[j] : j \in 1..Len(x.m)} = {y.m[j] : j \in 1..Len(y.m)}

\* the records of the two instances differ at most in the order of `fields`
DifferOnlyInOrderOf(fields) ==
    /\ DOMAIN fingerprint.o = DOMAIN other.fingerprint.o
    /\ \A f \in DOMAIN fingerprint.o \ fields : fingerprint.o[f] = other.fingerprint.o[f]
    /\ \A f \in fields : SameContent(fingerprint.o[f], other.fingerprint.o[f])

\* every getHash() call on either instance returned the same string
HashesAgree == \A j \in 1..Len(hashes), k \in 1..Len(other.hashes) : hashes[j] = other.hashes[k]

\* C19: two AdvancedCSSFingerprint records that list the same fonts, however
\* many, in a different order have the same hash.
C19_FontOrderIgnored ==
    (engine = "adv" /\ DifferOnlyInOrderOf({"fonts"})) => HashesAgree

\* C20: two CSSFingerprint records whose maps cssProperties, mediaQueries,
\* cssFilters, cssBlending, fontMetrics and emojiRendering hold the same
\* entries, inserted in a different order, have the same hash.
C20_KeyOrderIgnored ==
    (engine = "css" /\ DifferOnlyInOrderOf(OrderFields("css"))) => HashesAgree

\* C20 witness: getHash() has returned on two records of which every one of
\* the six maps lists its keys in a different order, fontMetrics having one
\* key per installed font
C20_Witness ==
    /\ engine = "css"
    /\ hashes # <<>>
    /\ other.hashes # <<>>
    /\ host.fonts = InstalledFonts
    /\ \A f \in OrderFields("css") :
          /\ fingerprint.o[f].t = "map"
          /\ Len(fingerprint.o[f].m) >= 2
          /\ fingerprint.o[f] # other.fingerprint.o[f]


\* C14: once a generate() call has completed, every getHash() call returns
\* the hash of the record the most recently completed generate() returned
\* (the record of the host it ran on), and every getCompact() /
\* getCompactFingerprint() call returns that same hash in its `hash` field.
C14_HashFollowsLatestRecord ==
    [][args # <<>> =>
          /\ Len(hashes') > Len(hashes) =>
                /\ hashes'[Len(hashes')] = GetHashOf(engine, returned)
                /\ hashes'[Len(hashes')] = GetHashOf(engine, RecordOn(engine, args[1]))
          /\ Len(ret') > Len(ret) =>
                /\ ret'[Len(ret')].o.hash = Str(GetHashOf(engine, returned))
                /\ ret'[Len(ret')].o.hash = Str(GetHashOf(engine, RecordOn(engine, args[1])))]_vars

\* C14 witness: two generate() calls have completed on hosts with different
\* records, getHash() was called after one and getCompact() after the other,
\* and the two hashes differ
C14_Witness ==
    /\ launched = 2
    /\ gen = "fulfilled"
    /\ Len(hashes) = 1
    /\ Len(ret) = 1
    /\ ret[1].o.hash # Str(hashes[1])
    /\ ret[1].o.hash = Str(GetHashOf(engine, fingerprint))


\* a step resumes a suspended probe only when every probe has been started,
\* and settles no other probe
ResumesOnlyWhenAllLaunched ==
    engine \in {"abf", "adv"} =>
        \A k \in 1..NumProbes(engine) :
            (outcome[k] = Pending /\ outcome'[k] # Pending) =>
                /\ launched = NumProbes(engine)
                /\ \A j \in 1..NumProbes(engine) : outcome[j] # Unlaunched
                /\ \A j \in 1..NumProbes(engine) \ {k} : outcome'[j] = outcome[j]

\* C21: in AdvancedBrowserFingerprint.generate() and
\* AdvancedCSSFingerprint.generate() a suspended probe is resumed only when
\* every probe of the call has been started, and a probe settles although a
\* probe called before it is still suspended.
C21_AllLaunchedBeforeAnyResumes == [][ResumesOnlyWhenAllLaunched]_vars

\* C21 witness: every probe was started, a later probe has settled while the
\* WebRTC probe, called before it, is still suspended
C21_Witness ==
    /\ engine = "abf"
    /\ launched = NumProbes(engine)
    /\ inversion
    /\ outcome[WebRtcIx] = Pending
    /\ \E k \in (WebRtcIx + 1)..NumProbes(engine) :
          Probes(engine)[k].kind = "await" /\ outcome[k].st = "fulfilled"


\* C22: when a probe that appends a temporary node to the document has
\* returned or thrown, its node is no longer in the document, also when a host
\* call between the append and the remove threw.
C22_TemporaryNodesRemoved ==
    \A k \in 1..launched : Probes(engine)[k].name \notin dom


\* C23: a peer connection the WebRTC probe has created is closed on every
\* path: as long as it is open the 1000 ms timer that closes it is pending,
\* and once that timer has fired the connection is closed.
C23_ConnectionClosedOnEveryPath ==
    /\ webrtc.pc = "open" => webrtc.timer = "pending"
    /\ webrtc.timer = "fired" => webrtc.pc = "closed"


\* C24: when generate() has returned, no handler and no timer a probe
\* registered is still pending: the onicecandidate handler, the
\* onvoiceschanged handler and the two 1000 ms timers have fired or were
\* removed.
C24_NothingPendingAfterReturn ==
    gen = "fulfilled" =>
        /\ webrtc.timer # "pending"
        /\ speech.timer # "pending"
        /\ ~(webrtc.handler /\ webrtc.pc = "open")
        /\ ~(speech.handler /\ ~speech.changed)


\* C25: on every input string the loop of getCombinedHash returns the string
\* the loops of the three getHash functions return, which is the string the
\* loop of AdvancedBrowserFingerprint.getHash has returned step by step.
C25_FourLoopsAgree ==
    foldPc = "done" =>
        /\ CombinedFoldLoop(str) = ret
        /\ AbfFoldLoop(str) = ret
        /\ CssFoldLoop(str) = ret
        /\ AdvFoldLoop(str) = ret

\* C25 witness: the loop has returned on a string with a '|' for which the
\* accumulator exceeded 32 bits
C25_Witness ==
    /\ foldPc = "done"
    /\ wrapped
    /\ \E j \in 1..Len(str) : str[j] = 124
    /\ CombinedFoldLoop(str) = ret


\* a step in which a generate() call completes leaves every record object an
\* earlier call returned as it was
GenerateLeavesEarlierRecords ==
    (launched' = launched + 1 /\ gen' = "fulfilled") =>
        /\ \A j \in 1..Len(held) : held'[j] = held[j]
        /\ returned # Undef =>
              /\ Len(held') = Len(held) + 1
              /\ held'[Len(held')] = returned

\* C26: a generate() call that completes stores a new record object and
\* leaves the record objects returned by earlier generate() calls on the same
\* instance unchanged.
C26_EarlierRecordsUnchanged == [][GenerateLeavesEarlierRecords]_vars

\* C26 witness: a second generate() has completed with a record that differs
\* from the one the first call returned, which the caller still holds
C26_Witness ==
    /\ launched = 2
    /\ gen = "fulfilled"
    /\ Len(held) = 1
    /\ held[1] # fingerprint
    /\ held[1] # EmptyObj


\* a getHash() or getCompact() step leaves the stored record, which is the
\* object generate() returned, as it was
CallLeavesRecord ==
    (Len(hashes') > Len(hashes) \/ Len(ret') > Len(ret)) =>
        /\ fingerprint' = fingerprint
        /\ returned' = returned

\* C27: getHash() and getCompact() of each class leave the stored record
\* unchanged, the order of every list in it included.
C27_GetHashIsReadOnly == [][CallLeavesRecord]_vars


\* a step in which a generate() call fails leaves the stored record and its
\* hash as they were
FailedCallLeavesRecord ==
    (launched' = launched + 1 /\ gen' = "rejected") =>
        /\ fingerprint' = fingerprint
        /\ GetHashOf(engine, fingerprint') = GetHashOf(engine, fingerprint)

\* C29: when a generate() call fails because a probe throws or rejects, the
\* stored record is what it was before the call, and getHash() returns the
\* same string after the call as before it.
C29_FailedCallLeavesRecord == [][FailedCallLeavesRecord]_vars

\* C29 witness: a generate() call completed, a later one failed, and getHash()
\* called after the failure returned the hash of the completed call's record
C29_Witness ==
    /\ launched = 2
    /\ gen = "rejected"
    /\ args # <<>>
    /\ fingerprint # EmptyObj
    /\ Len(hashes) = 1
    /\ Len(ret) = 1
    /\ ret[1].o.hash = Str(hashes[1])
    /\ hashes[1] = GetHashOf(engine, RecordOn(engine, args[1]))


\* the record invocation j builds, as generate() stores it or as a getHash()
\* call has left it
IsRecordOfCall(fp, j) ==
    /\ calls[j].st = "fulfilled"
    /\ \/ fp = RecordOn(engine, calls[j].host)
       \/ fp = AfterGetHash(engine, RecordOn(engine, calls[j].host))

\* the invocations that have completed, and the one that completed last
CompletedCalls == {j \in 1..Len(calls) : calls[j].st = "fulfilled"}

LastCompleted == CHOOSE j \in CompletedCalls : \A k \in CompletedCalls : calls[k].done <= calls[j].done

\* a getHash() step returns the hash of the record stored before the step
HashUsesStoredRecord ==
    Len(hashes') > Len(hashes) =>
        hashes'[Len(hashes')] =
            GetHashOf(engine, IF CompletedCalls = {} THEN EmptyObj
                              ELSE RecordOn(engine, calls[LastCompleted].host))

\* C28: while generate() calls on one instance overlap, the stored record is
\* the empty record or the complete record of one invocation; once an
\* invocation has completed it is the record of the one that completed last;
\* getHash() in between hashes the record stored at that moment.
C28_OverlappingCallsStoreWholeRecords ==
    /\ [](CompletedCalls = {} => fingerprint = EmptyObj)
    /\ [](CompletedCalls # {} => IsRecordOfCall(fingerprint, LastCompleted))
    /\ [][HashUsesStoredRecord]_vars

\* C28 witness: two invocations overlapped on hosts with different records,
\* the one called second completed first, both have completed, and getHash()
\* was called while one of them was suspended
C28_Witness ==
    /\ calls[1].st = "fulfilled"
    /\ calls[2].st = "fulfilled"
    /\ calls[2].done = 1
    /\ calls[1].done = 2
    /\ calls[1].host # calls[2].host
    /\ Len(hashes) = 1
    /\ hashes[1] = GetHashOf(engine, RecordOn(engine, calls[2].host))
    /\ hashes[1] # GetHashOf(engine, fingerprint)


\* C30: getHash() of each engine returns a hash string, and does not throw,
\* for the empty record of a new instance and for every record whose fields
\* hold null or a value the probe returns.
C30_GetHashIsTotal ==
    /\ ~GetHashThrows(engine, fingerprint)
    /\ \A j \in 1..Len(ret) : ret[j].t = "str" /\ Len(ret[j].s) > 0

\* C30 witness: getHash() of the CSS engine returned a hash for a record whose
\* font metrics are there (the access without ?. ran for each font) and whose
\* font list is null
C30_Witness ==
    /\ engine = "css"
    /\ Len(InsertionKeys(Prop(fingerprint, "fontMetrics")).a) > 0
    /\ Prop(fingerprint, "fontList") = Null
    /\ Len(ret) > 0
    /\ ret[1].t = "str"

====
